---- MODULE Spec2Model ----
(***************************************************************************)
(* Stake-weighted reputation and governance engine of the gs2 contracts:   *)
(*   identity_registry   - collateral staking, quadratic slashing          *)
(*   reputation_registry - decay-weighted reputation, multisig governance  *)
(*   token_staking       - SPL token endorsement vaults with a lock period  *)
(*   validation_registry - endpoint validations, consensus score and stamp  *)
(* Every instruction is one atomic transition (a Solana transaction either *)
(* commits all of its account writes or none), so a failing call leaves    *)
(* the accounts untouched and only its outcome is recorded in lastCall.    *)
(***************************************************************************)
EXTENDS Integers, Sequences, FiniteSets, TLC

VARIABLES
    now,             \* Clock::get()?.unix_timestamp
    agent_identity,  \* AgentIdentity accounts, one per registered agent
    staking_pool,    \* the StakingPool singleton
    lamports,        \* custody balances: agent wallets, pool PDA, treasury
    lastCall,        \* the instruction of the last step and its outcome
    slashProbe,      \* inputs and results of calculate_slash_amount probes
    multisig,        \* the MultisigAuthority singleton
    proposals,       \* MultisigProposal accounts; proposal id i is proposals[i + 1]
    agent_reputation,\* AgentReputation accounts, one per agent
    approvedBy,      \* history: per proposal, the keys whose propose/approve succeeded
    executions,      \* history: per proposal, how often its payload was applied
    decayApplied,    \* history: the agents for which an apply_decay has succeeded
    program_config,  \* the ProgramConfig singleton of identity_registry
    rate_limit,      \* the UserRateLimit account of one user (identity_registry)
    accepted,        \* history: the clock readings of the successful check_rate_limit calls
    vault,           \* the StakingVault of one agent and token mint (token_staking)
    stake_position,  \* the StakePosition of one staker in that vault
    token_balance,   \* SPL token accounts: the staker's and the vault's
    endpoint_validation \* the EndpointValidation account of one endpoint

vars == <<now, agent_identity, staking_pool, lamports, lastCall, slashProbe,
          multisig, proposals, agent_reputation, approvedBy, executions, decayApplied,
          program_config, rate_limit, accepted, vault, stake_position, token_balance,
          endpoint_validation>>

rateVars == <<rate_limit, accepted>>
tokenVars == <<vault, stake_position, token_balance>>
\* the accounts of the rate limiter, of token_staking and of validation_registry
otherVars == <<rateVars, tokenVars, endpoint_validation>>

stakeVars == <<agent_identity, staking_pool, lamports, program_config>>
govVars == <<multisig, proposals, approvedBy, executions>>
repVars == <<agent_reputation, decayApplied>>

(***************************************************************************)
(* u64 values.  TLC integers are 32 bits wide, so a u64 is kept as five    *)
(* base-10^4 limbs, least significant first; the checked_* operators       *)
(* return None exactly where the Rust ones do (result outside 0..2^64-1).  *)
(***************************************************************************)
LimbBase == 10 * 1000
U64_MAX == <<1615, 955, 737, 6744, 1844>>   \* 18446744073709551615
U64Limbs == Len(U64_MAX)
U64_ZERO == <<0, 0, 0, 0, 0>>

\* the u64 holding the small natural n (n < 2^31)
U64(n) == <<n % LimbBase, (n \div LimbBase) % LimbBase,
            (n \div (LimbBase * LimbBase)) % LimbBase, 0, 0>>

None == [some |-> FALSE, v |-> U64_ZERO]
Some(x) == [some |-> TRUE, v |-> x]

RECURSIVE LtLimbs(_, _, _)
LtLimbs(a, b, i) ==
    IF i = 0 THEN FALSE
    ELSE IF a[i] # b[i] THEN a[i] < b[i]
    ELSE LtLimbs(a, b, i - 1)

\* a < b, a <= b on limb sequences of equal length
Lt(a, b) == LtLimbs(a, b, Len(a))
Le(a, b) == ~Lt(b, a)
BigMax(a, b) == IF Lt(a, b) THEN b ELSE a

RECURSIVE AddLimbs(_, _, _, _)
AddLimbs(a, b, i, carry) ==
    IF i > Len(a) THEN <<carry>>
    ELSE LET s == a[i] + b[i] + carry
         IN  <<s % LimbBase>> \o AddLimbs(a, b, i + 1, s \div LimbBase)

RECURSIVE SubLimbs(_, _, _, _)
SubLimbs(a, b, i, borrow) ==
    IF i > Len(a) THEN <<>>
    ELSE LET d == a[i] - b[i] - borrow
         IN  <<IF d < 0 THEN d + LimbBase ELSE d>>
                 \o SubLimbs(a, b, i + 1, IF d < 0 THEN 1 ELSE 0)

\* a * k for a small factor k <= LimbBase; one limb longer than a
RECURSIVE MulLimbs(_, _, _, _)
MulLimbs(a, k, i, carry) ==
    IF i > Len(a) THEN <<carry>>
    ELSE LET p == a[i] * k + carry
         IN  <<p % LimbBase>> \o MulLimbs(a, k, i + 1, p \div LimbBase)

\* floor(a / d) for a small divisor 0 < d <= LimbBase, by long division
RECURSIVE DivLimbs(_, _, _, _)
DivLimbs(a, d, i, rem) ==
    IF i = 0 THEN <<>>
    ELSE LET cur == rem * LimbBase + a[i]
         IN  DivLimbs(a, d, i - 1, cur % d) \o <<cur \div d>>

\* the exact (unbounded) product and quotient, as limb sequences
MulExact(a, k) == MulLimbs(a, k, 1, 0)
DivExact(a, d) == DivLimbs(a, d, Len(a), 0)
Widen(a) == a \o <<0>>

FitsU64(wide) == wide[U64Limbs + 1] = 0 /\ Le(SubSeq(wide, 1, U64Limbs), U64_MAX)

\* u64::checked_add, checked_sub, checked_mul (by a small factor), checked_div
checked_add(a, b) ==
    LET s == AddLimbs(a, b, 1, 0)
    IN  IF FitsU64(s) THEN Some(SubSeq(s, 1, U64Limbs)) ELSE None

checked_sub(a, b) ==
    IF Lt(a, b) THEN None ELSE Some(SubLimbs(a, b, 1, 0))

checked_mul(a, k) ==
    LET p == MulExact(a, k)
    IN  IF FitsU64(p) THEN Some(SubSeq(p, 1, U64Limbs)) ELSE None

checked_div(a, d) ==
    IF d = 0 THEN None ELSE Some(DivExact(a, d))

\* the sum of f[x] over x in S, exact, as a limb sequence one limb wider than a u64
\* (enough for the few accounts of the model)
RECURSIVE SumWide(_, _)
SumWide(f, S) ==
    IF S = {} THEN Widen(U64_ZERO)
    ELSE LET x == CHOOSE y \in S : TRUE
         IN  SubSeq(AddLimbs(SumWide(f, S \ {x}), Widen(f[x]), 1, 0), 1, U64Limbs + 1)

Min(x, y) == IF x < y THEN x ELSE y
Max(x, y) == IF x > y THEN x ELSE y

(***************************************************************************)
(* identity_registry: constants and the accounts of the model              *)
(***************************************************************************)
MIN_STAKE_AMOUNT == U64(100000000)          \* 0.1 SOL in lamports
STAKE_UNLOCK_PERIOD == 7 * 24 * 60 * 60     \* 7 days in seconds
MAX_SLASH_BPS == 5000
BPS_DENOMINATOR == 10000
SECONDS_PER_DAY == 86400

Agents == {"a1", "a2"}
Pool == "staking_pool"
Treasury == "treasury"
Accounts == Agents \cup {Pool, Treasury}

\* the clock of the first slot of a run, and how far the model lets it run
Genesis == 1000 * SECONDS_PER_DAY
MaxClockDays == 8
MaxCalls == 4

\* 4 * 10^15 lamports (4 million SOL): a stake large enough that
\* staked * 5000 leaves the u64 range
WHALE_STAKE == <<0, 0, 0, 4000, 0>>
HALF_MIN_STAKE == U64(50000000)
POOL_RENT == U64(1500000)

InitialLamports ==
    [x \in Accounts |->
        CASE x = "a1" -> SubSeq(AddLimbs(WHALE_STAKE, U64(300000000), 1, 0), 1, U64Limbs)
          [] x = "a2" -> U64(150000000)
          [] x = Pool -> POOL_RENT
          [] OTHER -> U64(1000000)]

\* an instruction call and its outcome; arg is the instruction's argument (the
\* amount of stake/unstake, the severity of slash, a proposal id, a signer key,
\* a threshold, a score)
Call(op, who, arg, result) == [op |-> op, who |-> who, arg |-> arg, result |-> result]

(***************************************************************************)
(* AgentIdentity (state.rs)                                                *)
(***************************************************************************)
\* RegisterAgent: `init` zeroes the account, the handler sets the identity fields.
\* The staking fields and the activity counter are kept; the address, the
\* metadata and last_active_timestamp (written, never read) are left out.
RegisteredIdentity(clock) ==
    [ activity_count |-> 1,
      is_active |-> TRUE,
      staked_amount |-> U64_ZERO,
      stake_unlock_timestamp |-> 0,
      slash_count |-> 0,
      total_slashed |-> U64_ZERO ]

can_unlock_stake_strict(identity, current_timestamp) ==
    identity.stake_unlock_timestamp > 0
        /\ current_timestamp > identity.stake_unlock_timestamp

\* can_unlock_stake without the test that a lock was ever set
can_unlock_stake_never_staked(identity, current_timestamp) ==
    current_timestamp >= identity.stake_unlock_timestamp

can_unlock_stake(identity, current_timestamp) ==
    identity.stake_unlock_timestamp > 0
        /\ current_timestamp >= identity.stake_unlock_timestamp

\* severity.saturating_mul(severity).saturating_div(10000).min(MAX_SLASH_BPS):
\* severity <= 10000, so neither saturating operation saturates
slash_bps_of_uncapped(violation_severity_bps) ==
    LET severity == Min(violation_severity_bps, 10000)
    IN  (severity * severity) \div BPS_DENOMINATOR

slash_bps_of(violation_severity_bps) ==
    LET severity == Min(violation_severity_bps, 10000)
    IN  Min((severity * severity) \div BPS_DENOMINATOR, MAX_SLASH_BPS)

calculate_slash_amount(staked_amount, violation_severity_bps) ==
    LET slash_bps == slash_bps_of(violation_severity_bps)
        product == checked_mul(staked_amount, slash_bps)
        quotient == IF product.some THEN checked_div(product.v, BPS_DENOMINATOR) ELSE None
    IN  IF quotient.some THEN quotient.v ELSE U64_ZERO

(***************************************************************************)
(* StakingPool (state.rs) as initialize_staking_pool leaves it             *)
(***************************************************************************)
InitialStakingPool ==
    [ total_staked |-> U64_ZERO,
      total_stakers |-> 0,
      total_slashed |-> U64_ZERO,
      min_stake_amount |-> MIN_STAKE_AMOUNT,
      unlock_period |-> STAKE_UNLOCK_PERIOD,
      is_paused |-> FALSE ]

\* the successful stake, unstake and slash calls so far, which the model caps:
\* every stake and unstake bumps activity_count (1 at registration), every
\* slash bumps slash_count
RECURSIVE CountCalls(_)
CountCalls(S) ==
    IF S = {} THEN 0
    ELSE LET a == CHOOSE x \in S : TRUE
         IN  (agent_identity[a].activity_count - 1) + agent_identity[a].slash_count
                 + CountCalls(S \ {a})

CallsMade == CountCalls(Agents)

(***************************************************************************)
(* stake_collateral (stake.rs)                                             *)
(***************************************************************************)
\* lines 67-76: the lock restarts from the current clock on every contribution
stake_unlock_timestamp_topup_unlocked(identity, pool, clock) ==
    IF Lt(U64_ZERO, identity.staked_amount) THEN clock
    ELSE clock + (IF pool.unlock_period > 0 THEN pool.unlock_period ELSE STAKE_UNLOCK_PERIOD)

stake_unlock_timestamp(identity, pool, clock) ==
    LET unlock_period == IF pool.unlock_period > 0 THEN pool.unlock_period
                         ELSE STAKE_UNLOCK_PERIOD
    IN  clock + unlock_period

\* lines 83-86: staking_pool.total_staked.checked_add(amount)
stake_total_staked_stale(total_staked, amount) == Some(total_staked)

stake_total_staked(total_staked, amount) == checked_add(total_staked, amount)

\* stake_collateral without the account constraint on the pool's pause flag
stake_collateral_while_paused(a, amount) ==
    LET identity == agent_identity[a]
        effective_min == BigMax(staking_pool.min_stake_amount, MIN_STAKE_AMOUNT)
        was_staker == Lt(U64_ZERO, identity.staked_amount)
        from_balance == checked_sub(lamports[a], amount)
        to_balance == checked_add(lamports[Pool], amount)
        new_staked == checked_add(identity.staked_amount, amount)
        new_total == stake_total_staked(staking_pool.total_staked, amount)
        result ==
            IF Lt(amount, effective_min) THEN "BelowMinimumStake"
            ELSE IF ~from_balance.some \/ ~to_balance.some THEN "InsufficientFunds"
            ELSE IF ~new_staked.some \/ ~new_total.some THEN "ArithmeticOverflow"
            ELSE "Ok"
    IN  /\ CallsMade < MaxCalls
        /\ lastCall' = Call("stake_collateral", a, amount, result)
        /\ IF result = "Ok"
           THEN /\ lamports' = [lamports EXCEPT ![a] = from_balance.v,
                                                ![Pool] = to_balance.v]
                /\ agent_identity' = [agent_identity EXCEPT ![a] =
                       [identity EXCEPT
                           !.staked_amount = new_staked.v,
                           !.stake_unlock_timestamp =
                               stake_unlock_timestamp(identity, staking_pool, now),
                           !.activity_count = identity.activity_count + 1]]
                /\ staking_pool' = [staking_pool EXCEPT
                       !.total_staked = new_total.v,
                       !.total_stakers = IF was_staker THEN @ ELSE @ + 1]
           ELSE UNCHANGED <<lamports, agent_identity, staking_pool>>
        /\ UNCHANGED <<now, program_config, slashProbe, otherVars, govVars, repVars>>

stake_collateral(a, amount) ==
    LET identity == agent_identity[a]
        effective_min == BigMax(staking_pool.min_stake_amount, MIN_STAKE_AMOUNT)
        was_staker == Lt(U64_ZERO, identity.staked_amount)
        from_balance == checked_sub(lamports[a], amount)
        to_balance == checked_add(lamports[Pool], amount)
        new_staked == checked_add(identity.staked_amount, amount)
        new_total == stake_total_staked(staking_pool.total_staked, amount)
        result ==
            IF staking_pool.is_paused THEN "StakingPaused"
            ELSE IF Lt(amount, effective_min) THEN "BelowMinimumStake"
            ELSE IF ~from_balance.some \/ ~to_balance.some THEN "InsufficientFunds"
            ELSE IF ~new_staked.some \/ ~new_total.some THEN "ArithmeticOverflow"
            ELSE "Ok"
    IN  /\ CallsMade < MaxCalls
        /\ lastCall' = Call("stake_collateral", a, amount, result)
        /\ IF result = "Ok"
           THEN /\ lamports' = [lamports EXCEPT ![a] = from_balance.v,
                                                ![Pool] = to_balance.v]
                /\ agent_identity' = [agent_identity EXCEPT ![a] =
                       [identity EXCEPT
                           !.staked_amount = new_staked.v,
                           !.stake_unlock_timestamp =
                               stake_unlock_timestamp(identity, staking_pool, now),
                           !.activity_count = identity.activity_count + 1]]
                /\ staking_pool' = [staking_pool EXCEPT
                       !.total_staked = new_total.v,
                       !.total_stakers = IF was_staker THEN @ ELSE @ + 1]
           ELSE UNCHANGED <<lamports, agent_identity, staking_pool>>
        /\ UNCHANGED <<now, program_config, slashProbe, otherVars, govVars, repVars>>

(***************************************************************************)
(* unstake_collateral (stake.rs)                                           *)
(***************************************************************************)
unstake_collateral_pool_undebited(a, amount) ==
    LET identity == agent_identity[a]
        remaining_stake == checked_sub(identity.staked_amount, amount)
        pool_balance == checked_sub(lamports[Pool], amount)
        agent_balance == checked_add(lamports[a], amount)
        new_total == checked_sub(staking_pool.total_staked, amount)
        result ==
            IF ~can_unlock_stake(identity, now) THEN "StakeLocked"
            ELSE IF Lt(identity.staked_amount, amount) THEN "InsufficientStake"
            ELSE IF ~remaining_stake.some \/ ~pool_balance.some
                    \/ ~agent_balance.some \/ ~new_total.some THEN "ArithmeticOverflow"
            ELSE "Ok"
    IN  /\ CallsMade < MaxCalls
        /\ lastCall' = Call("unstake_collateral", a, amount, result)
        /\ IF result = "Ok"
           THEN /\ lamports' = [lamports EXCEPT ![Pool] = lamports[Pool],
                                                ![a] = agent_balance.v]
                /\ agent_identity' = [agent_identity EXCEPT ![a] =
                       [identity EXCEPT
                           !.staked_amount = remaining_stake.v,
                           !.stake_unlock_timestamp =
                               IF remaining_stake.v = U64_ZERO THEN 0 ELSE @,
                           !.activity_count = identity.activity_count + 1]]
                /\ staking_pool' = [staking_pool EXCEPT
                       !.total_staked = new_total.v,
                       !.total_stakers =
                           IF remaining_stake.v = U64_ZERO THEN Max(@ - 1, 0) ELSE @]
           ELSE UNCHANGED <<lamports, agent_identity, staking_pool>>
        /\ UNCHANGED <<now, program_config, slashProbe, otherVars, govVars, repVars>>

unstake_collateral(a, amount) ==
    LET identity == agent_identity[a]
        remaining_stake == checked_sub(identity.staked_amount, amount)
        pool_balance == checked_sub(lamports[Pool], amount)
        agent_balance == checked_add(lamports[a], amount)
        new_total == checked_sub(staking_pool.total_staked, amount)
        result ==
            IF ~can_unlock_stake(identity, now) THEN "StakeLocked"
            ELSE IF Lt(identity.staked_amount, amount) THEN "InsufficientStake"
            ELSE IF ~remaining_stake.some \/ ~pool_balance.some
                    \/ ~agent_balance.some \/ ~new_total.some THEN "ArithmeticOverflow"
            ELSE "Ok"
    IN  /\ CallsMade < MaxCalls
        /\ lastCall' = Call("unstake_collateral", a, amount, result)
        /\ IF result = "Ok"
           THEN /\ lamports' = [lamports EXCEPT ![Pool] = pool_balance.v,
                                                ![a] = agent_balance.v]
                /\ agent_identity' = [agent_identity EXCEPT ![a] =
                       [identity EXCEPT
                           !.staked_amount = remaining_stake.v,
                           !.stake_unlock_timestamp =
                               IF remaining_stake.v = U64_ZERO THEN 0 ELSE @,
                           !.activity_count = identity.activity_count + 1]]
                /\ staking_pool' = [staking_pool EXCEPT
                       !.total_staked = new_total.v,
                       !.total_stakers =
                           IF remaining_stake.v = U64_ZERO THEN Max(@ - 1, 0) ELSE @]
           ELSE UNCHANGED <<lamports, agent_identity, staking_pool>>
        /\ UNCHANGED <<now, program_config, slashProbe, otherVars, govVars, repVars>>

(***************************************************************************)
(* slash_agent (stake.rs), signed by the pool authority                    *)
(***************************************************************************)
\* slash_agent without the update of the pool's total_slashed
slash_agent_position_only(a, violation_severity_bps) ==
    LET identity == agent_identity[a]
        slash_amount == calculate_slash_amount(identity.staked_amount,
                                               violation_severity_bps)
        pool_balance == checked_sub(lamports[Pool], slash_amount)
        treasury_balance == checked_add(lamports[Treasury], slash_amount)
        new_staked == checked_sub(identity.staked_amount, slash_amount)
        new_agent_slashed == checked_add(identity.total_slashed, slash_amount)
        new_total == checked_sub(staking_pool.total_staked, slash_amount)
        new_pool_slashed == checked_add(staking_pool.total_slashed, slash_amount)
        result ==
            IF violation_severity_bps > 10000 THEN "InvalidSlashSeverity"
            ELSE IF slash_amount = U64_ZERO THEN "NothingToSlash"
            ELSE IF Lt(identity.staked_amount, slash_amount) THEN "InsufficientStake"
            ELSE IF ~pool_balance.some \/ ~treasury_balance.some \/ ~new_staked.some
                    \/ ~new_agent_slashed.some \/ ~new_total.some
                    \/ ~new_pool_slashed.some THEN "ArithmeticOverflow"
            ELSE "Ok"
    IN  /\ CallsMade < MaxCalls
        /\ lastCall' = Call("slash_agent", a, violation_severity_bps, result)
        /\ IF result = "Ok"
           THEN /\ lamports' = [lamports EXCEPT ![Pool] = pool_balance.v,
                                                ![Treasury] = treasury_balance.v]
                /\ agent_identity' = [agent_identity EXCEPT ![a] =
                       [identity EXCEPT
                           !.staked_amount = new_staked.v,
                           !.slash_count = identity.slash_count + 1,
                           !.total_slashed = new_agent_slashed.v]]
                /\ staking_pool' = [staking_pool EXCEPT
                       !.total_staked = new_total.v,
                       !.total_stakers =
                           IF new_staked.v = U64_ZERO THEN Max(@ - 1, 0) ELSE @]
           ELSE UNCHANGED <<lamports, agent_identity, staking_pool>>
        /\ UNCHANGED <<now, program_config, slashProbe, otherVars, govVars, repVars>>

slash_agent(a, violation_severity_bps) ==
    LET identity == agent_identity[a]
        slash_amount == calculate_slash_amount(identity.staked_amount,
                                               violation_severity_bps)
        pool_balance == checked_sub(lamports[Pool], slash_amount)
        treasury_balance == checked_add(lamports[Treasury], slash_amount)
        new_staked == checked_sub(identity.staked_amount, slash_amount)
        new_agent_slashed == checked_add(identity.total_slashed, slash_amount)
        new_total == checked_sub(staking_pool.total_staked, slash_amount)
        new_pool_slashed == checked_add(staking_pool.total_slashed, slash_amount)
        result ==
            IF violation_severity_bps > 10000 THEN "InvalidSlashSeverity"
            ELSE IF slash_amount = U64_ZERO THEN "NothingToSlash"
            ELSE IF Lt(identity.staked_amount, slash_amount) THEN "InsufficientStake"
            ELSE IF ~pool_balance.some \/ ~treasury_balance.some \/ ~new_staked.some
                    \/ ~new_agent_slashed.some \/ ~new_total.some
                    \/ ~new_pool_slashed.some THEN "ArithmeticOverflow"
            ELSE "Ok"
    IN  /\ CallsMade < MaxCalls
        /\ lastCall' = Call("slash_agent", a, violation_severity_bps, result)
        /\ IF result = "Ok"
           THEN /\ lamports' = [lamports EXCEPT ![Pool] = pool_balance.v,
                                                ![Treasury] = treasury_balance.v]
                /\ agent_identity' = [agent_identity EXCEPT ![a] =
                       [identity EXCEPT
                           !.staked_amount = new_staked.v,
                           !.slash_count = identity.slash_count + 1,
                           !.total_slashed = new_agent_slashed.v]]
                /\ staking_pool' = [staking_pool EXCEPT
                       !.total_staked = new_total.v,
                       !.total_slashed = new_pool_slashed.v,
                       !.total_stakers =
                           IF new_staked.v = U64_ZERO THEN Max(@ - 1, 0) ELSE @]
           ELSE UNCHANGED <<lamports, agent_identity, staking_pool>>
        /\ UNCHANGED <<now, program_config, slashProbe, otherVars, govVars, repVars>>

(***************************************************************************)
(* pause_staking / unpause_staking (stake.rs), signed by the pool authority *)
(***************************************************************************)
pause_staking ==
    /\ staking_pool' = [staking_pool EXCEPT !.is_paused = TRUE]
    /\ lastCall' = Call("pause_staking", "authority", 0, "Ok")
    /\ UNCHANGED <<now, agent_identity, lamports, program_config, slashProbe, otherVars, govVars, repVars>>

unpause_staking ==
    /\ staking_pool' = [staking_pool EXCEPT !.is_paused = FALSE]
    /\ lastCall' = Call("unpause_staking", "authority", 0, "Ok")
    /\ UNCHANGED <<now, agent_identity, lamports, program_config, slashProbe, otherVars, govVars, repVars>>

(***************************************************************************)
(* reputation_registry: AgentReputation (state/mod.rs)                     *)
(***************************************************************************)
DECAY_HALF_LIFE_DAYS == 90
DECAY_MIN_SCORE == 100
DECAY_GRACE_PERIOD_DAYS == 30

\* ComponentScores, ReputationStats and the payment-proof root travel together
\* as the payload of an update
Components(trust, quality, reliability, economic, social) ==
    [trust |-> trust, quality |-> quality, reliability |-> reliability,
     economic |-> economic, social |-> social]
Stats(total_votes, positive_votes, negative_votes, total_reviews, avg_review_rating) ==
    [total_votes |-> total_votes, positive_votes |-> positive_votes,
     negative_votes |-> negative_votes, total_reviews |-> total_reviews,
     avg_review_rating |-> avg_review_rating]
DefaultComponents == Components(0, 0, 0, 0, 0)
DefaultStats == Stats(0, 0, 0, 0, 0)
ZeroRoot == "root0"

\* initialize_reputation: `init` zeroes the account (the decay fields included),
\* the handler writes the score fields
InitialReputation(clock) ==
    [ overall_score |-> 0,
      component_scores |-> DefaultComponents,
      stats |-> DefaultStats,
      payment_proofs_merkle_root |-> ZeroRoot,
      last_updated |-> clock,
      base_score |-> 0,
      last_activity |-> 0,
      decay_enabled |-> FALSE,
      decay_rate_bps |-> 0 ]

ReputationInitialized ==
    /\ agent_reputation = [a \in Agents |-> InitialReputation(Genesis)]
    /\ decayApplied = {}

(***************************************************************************)
(* reputation_registry: MultisigAuthority and MultisigProposal             *)
(***************************************************************************)
MAX_MULTISIG_SIGNERS == 7
PROPOSAL_EXPIRY_SECONDS == 48 * 60 * 60

Keys == {"k1", "k2", "k3"}
Admin == "admin"
DefaultRoster == <<"k1", "k2", "k3">>
MaxProposals == 1

InSeq(sq, x) == \E i \in 1..Len(sq) : sq[i] = x

\* signers.iter().position(|s| s == key): the 0-based index of the first match
position(signers, key) == (CHOOSE i \in 1..Len(signers) :
                              signers[i] = key /\ \A j \in 1..(i - 1) : signers[j] # key) - 1

\* Vec::remove(index), 0-based: the later elements shift down by one
RemoveAt(sq, index) == SubSeq(sq, 1, index) \o SubSeq(sq, index + 2, Len(sq))

\* initialize_multisig(signers, threshold) as it leaves the account
InitialMultisig(signers, threshold) ==
    [ signers |-> signers,
      threshold |-> threshold,
      proposal_count |-> 0,
      admin |-> Admin,
      is_active |-> TRUE ]

GovInitialized(signers, threshold) ==
    /\ multisig = InitialMultisig(signers, threshold)
    /\ proposals = <<>>
    /\ approvedBy = <<>>
    /\ executions = <<>>

(***************************************************************************)
(* ProgramConfig (state.rs) and pause_program / unpause_program (admin.rs) *)
(***************************************************************************)
MAX_PAUSE_REASON_LEN == 128

\* initialize_program_config as it leaves the account; the reason text is kept
\* as its length, the rate limit (read by check_rate_limit only) is left out
InitialProgramConfig ==
    [ admin |-> Admin,
      is_paused |-> FALSE,
      paused_at |-> 0,
      pause_reason |-> 0,
      rate_limit_per_minute |-> 10 ]

(***************************************************************************)
(* UserRateLimit (state.rs) as initialize_user_rate_limit leaves it        *)
(***************************************************************************)
RATE_LIMIT_WINDOW_SECONDS == 60

InitialUserRateLimit(clock) ==
    [ window_start |-> clock,
      instruction_count |-> 0,
      last_instruction |-> clock ]

RateLimitInitialized ==
    /\ rate_limit = InitialUserRateLimit(Genesis)
    /\ accepted = <<>>

(***************************************************************************)
(* StakingVault and StakePosition (token_staking) as initialize_vault      *)
(* leaves them; the position account does not exist before the first stake *)
(***************************************************************************)
DEFAULT_LOCK_PERIOD == 7 * 24 * 60 * 60
MAX_LOCK_PERIOD == 365 * 24 * 60 * 60
Staker == "s1"
VaultAuthority == "vault_authority"
VaultTarget == "a1"

\* initialize_vault(min_stake_amount, lock_period_seconds, weight_multiplier)
InitialVault(min_stake_amount, lock_period_seconds, weight_multiplier, clock) ==
    [ target_agent |-> VaultTarget,
      min_stake_amount |-> Max(min_stake_amount, 1),
      lock_period_seconds |-> lock_period_seconds,
      weight_multiplier |-> weight_multiplier,
      total_staked |-> 0,
      total_stakers |-> 0,
      authority |-> VaultAuthority,
      is_active |-> TRUE,
      updated_at |-> clock ]

\* a zeroed account: what init_if_needed creates on the first stake
NoPosition ==
    [ staker |-> "default",
      amount |-> 0,
      category |-> "General",
      trust_weight |-> 0,
      staked_at |-> 0,
      locked_until |-> 0,
      unstaked_at |-> 0,
      is_active |-> FALSE,
      is_slashed |-> FALSE ]

InitialTokens == 4
InitialTokenBalance == [ staker |-> InitialTokens, vault |-> 0 ]

TokenStakingInitialized ==
    /\ vault = InitialVault(2, DEFAULT_LOCK_PERIOD, 100, Genesis)
    /\ stake_position = NoPosition
    /\ token_balance = InitialTokenBalance

(***************************************************************************)
(* EndpointValidation (validation_registry): absent until submit_validation*)
(***************************************************************************)
NoValidation ==
    [ submitted |-> FALSE,
      test_results |-> <<>>,
      consensus_score |-> 0,
      stamp_issued |-> FALSE ]

ValidationInitialized == endpoint_validation = NoValidation

pause_program(caller, reason) ==
    LET result ==
            IF program_config.admin # caller THEN "UnauthorizedAdmin"
            ELSE IF ~(reason <= MAX_PAUSE_REASON_LEN) THEN "PauseReasonTooLong"
            ELSE "Ok"
    IN  /\ lastCall' = Call("pause_program", caller, reason, result)
        /\ IF result = "Ok"
           THEN program_config' = [program_config EXCEPT !.is_paused = TRUE,
                                                         !.paused_at = now,
                                                         !.pause_reason = reason]
           ELSE UNCHANGED program_config
        /\ UNCHANGED <<now, agent_identity, staking_pool, lamports,
                       slashProbe, otherVars, govVars, repVars>>

unpause_program(caller) ==
    LET result == IF program_config.admin # caller THEN "UnauthorizedAdmin" ELSE "Ok"
    IN  /\ lastCall' = Call("unpause_program", caller, 0, result)
        /\ IF result = "Ok"
           THEN program_config' = [program_config EXCEPT !.is_paused = FALSE,
                                                         !.paused_at = 0,
                                                         !.pause_reason = 0]
           ELSE UNCHANGED program_config
        /\ UNCHANGED <<now, agent_identity, staking_pool, lamports,
                       slashProbe, otherVars, govVars, repVars>>

(***************************************************************************)
(* The staking ledger as a state machine                                   *)
(***************************************************************************)
StakeAmounts == {HALF_MIN_STAKE, MIN_STAKE_AMOUNT, WHALE_STAKE}
UnstakeAmounts(a) ==
    {U64_ZERO, MIN_STAKE_AMOUNT, agent_identity[a].staked_amount,
     SubSeq(AddLimbs(agent_identity[a].staked_amount, U64(1), 1, 0), 1, U64Limbs)}
Severities == {0, 3300, 10000, 10001}
ClockSteps == {6 * SECONDS_PER_DAY, 7 * SECONDS_PER_DAY}

\* the cluster clock only moves forward
Tick(step) ==
    /\ now + step <= Genesis + MaxClockDays * SECONDS_PER_DAY
    /\ now' = now + step
    /\ lastCall' = Call("tick", "clock", 0, "Ok")
    /\ UNCHANGED <<stakeVars, slashProbe, otherVars, govVars, repVars>>

NoProbe == [staked |-> U64_ZERO, a |-> 0, b |-> 0, done |-> FALSE,
            at_a |-> U64_ZERO, at_b |-> U64_ZERO]

\* the staking accounts once the pool is initialized and the agents registered
StakeInitialized ==
    /\ agent_identity = [a \in Agents |-> RegisteredIdentity(Genesis)]
    /\ staking_pool = InitialStakingPool
    /\ lamports = InitialLamports
    /\ program_config = InitialProgramConfig

InitStake ==
    /\ now = Genesis
    /\ StakeInitialized
    /\ RateLimitInitialized
    /\ TokenStakingInitialized
    /\ ValidationInitialized
    /\ lastCall = Call("initialize_staking_pool", "authority", 0, "Ok")
    /\ slashProbe = NoProbe
    /\ GovInitialized(DefaultRoster, 2)
    /\ ReputationInitialized

NextStake ==
    \/ \E a \in Agents, amount \in StakeAmounts : stake_collateral(a, amount)
    \/ \E a \in Agents : \E amount \in UnstakeAmounts(a) : unstake_collateral(a, amount)
    \/ \E a \in Agents, severity \in Severities : slash_agent(a, severity)
    \/ \E step \in ClockSteps : Tick(step)

SpecStake == InitStake /\ [][NextStake]_vars

(***************************************************************************)
(* calculate_slash_amount as a pure function: the inputs are drawn in Init *)
(* and one step applies the function at both severities.                   *)
(***************************************************************************)
\* floor(2^64 / 5000) and its successor: the largest stake whose product with
\* MAX_SLASH_BPS stays inside u64, and the first one that leaves it
LAST_SAFE_STAKE == <<1910, 1474, 8148, 6893, 3>>
FIRST_UNSAFE_STAKE == <<1911, 1474, 8148, 6893, 3>>

ProbeStakes == {U64_ZERO, U64(1), U64(1000000), MIN_STAKE_AMOUNT,
                LAST_SAFE_STAKE, FIRST_UNSAFE_STAKE, WHALE_STAKE, U64_MAX}
ProbeSeverities == {0, 1, 100, 3300, 7071, 7072, 10000}

slash_probe ==
    /\ ~slashProbe.done
    /\ slashProbe' = [slashProbe EXCEPT
           !.done = TRUE,
           !.at_a = calculate_slash_amount(slashProbe.staked, slashProbe.a),
           !.at_b = calculate_slash_amount(slashProbe.staked, slashProbe.b)]
    /\ lastCall' = Call("calculate_slash_amount", "probe", slashProbe.b, "Ok")
    /\ UNCHANGED <<now, stakeVars, govVars, repVars, otherVars>>

InitSlash ==
    /\ now = Genesis
    /\ StakeInitialized
    /\ RateLimitInitialized
    /\ TokenStakingInitialized
    /\ ValidationInitialized
    /\ lastCall = Call("initialize_staking_pool", "authority", 0, "Ok")
    /\ GovInitialized(DefaultRoster, 2)
    /\ ReputationInitialized
    /\ \E staked \in ProbeStakes, a \in ProbeSeverities, b \in ProbeSeverities :
           slashProbe = [NoProbe EXCEPT !.staked = staked, !.a = a, !.b = b]

NextSlash == slash_probe

SpecSlash == InitSlash /\ [][NextSlash]_vars

\* 1 << signer_index on the u8 bitmap (signer_index < 7)
Bit(signer_index) == 2 ^ signer_index

has_approved(proposal, signer_index) ==
    (proposal.approval_bitmap \div Bit(signer_index)) % 2 = 1

record_approval_next_bit(proposal, signer_index) ==
    [proposal EXCEPT
        !.approval_bitmap = IF has_approved(proposal, signer_index + 1) THEN @
                            ELSE @ + Bit(signer_index + 1),
        !.approval_count = Min(@ + 1, 255)]

\* approval_bitmap |= 1 << signer_index; approval_count.saturating_add(1) on u8
record_approval(proposal, signer_index) ==
    [proposal EXCEPT
        !.approval_bitmap = IF has_approved(proposal, signer_index) THEN @
                            ELSE @ + Bit(signer_index),
        !.approval_count = Min(@ + 1, 255)]

is_expired_on_the_boundary(proposal, current_time) ==
    current_time >= proposal.created_at + PROPOSAL_EXPIRY_SECONDS

is_expired(proposal, current_time) ==
    current_time > proposal.created_at + PROPOSAL_EXPIRY_SECONDS

has_quorum(proposal, threshold) == proposal.approval_count >= threshold

(***************************************************************************)
(* propose_reputation_update (multisig.rs)                                 *)
(***************************************************************************)
propose_reputation_update_reuses_id(proposer, target, payload) ==
    LET result ==
            IF ~multisig.is_active THEN "MultisigPaused"
            ELSE IF ~InSeq(multisig.signers, proposer) THEN "UnauthorizedSigner"
            ELSE "Ok"
        signer_index == position(multisig.signers, proposer)
        proposal ==
            [ proposal_id |-> multisig.proposal_count,
              proposal_type |-> "UpdateReputation",
              proposer |-> proposer,
              target_agent |-> target,
              proposed_score |-> payload.overall_score,
              proposed_components |-> payload.component_scores,
              proposed_stats |-> payload.stats,
              proposed_merkle_root |-> payload.merkle_root,
              approval_bitmap |-> 0,
              approval_count |-> 0,
              status |-> "Pending",
              created_at |-> now,
              executed_at |-> 0 ]
    IN  /\ lastCall' = Call("propose_reputation_update", proposer,
                            multisig.proposal_count, result)
        /\ IF result = "Ok"
           THEN /\ proposals' = Append(proposals, record_approval(proposal, signer_index))
                /\ multisig' = multisig
                /\ approvedBy' = Append(approvedBy, {proposer})
                /\ executions' = Append(executions, 0)
           ELSE UNCHANGED govVars
        /\ UNCHANGED <<now, stakeVars, slashProbe, otherVars, repVars>>

propose_reputation_update(proposer, target, payload) ==
    LET result ==
            IF ~multisig.is_active THEN "MultisigPaused"
            ELSE IF ~InSeq(multisig.signers, proposer) THEN "UnauthorizedSigner"
            ELSE "Ok"
        signer_index == position(multisig.signers, proposer)
        proposal ==
            [ proposal_id |-> multisig.proposal_count,
              proposal_type |-> "UpdateReputation",
              proposer |-> proposer,
              target_agent |-> target,
              proposed_score |-> payload.overall_score,
              proposed_components |-> payload.component_scores,
              proposed_stats |-> payload.stats,
              proposed_merkle_root |-> payload.merkle_root,
              approval_bitmap |-> 0,
              approval_count |-> 0,
              status |-> "Pending",
              created_at |-> now,
              executed_at |-> 0 ]
    IN  /\ lastCall' = Call("propose_reputation_update", proposer,
                            multisig.proposal_count, result)
        /\ IF result = "Ok"
           THEN /\ proposals' = Append(proposals, record_approval(proposal, signer_index))
                /\ multisig' = [multisig EXCEPT !.proposal_count = @ + 1]
                /\ approvedBy' = Append(approvedBy, {proposer})
                /\ executions' = Append(executions, 0)
           ELSE UNCHANGED govVars
        /\ UNCHANGED <<now, stakeVars, slashProbe, otherVars, repVars>>

(***************************************************************************)
(* approve_proposal (multisig.rs)                                          *)
(***************************************************************************)
approve_proposal(signer, proposal_id) ==
    LET proposal == proposals[proposal_id + 1]
        signer_index == position(multisig.signers, signer)
        result ==
            IF proposal.status # "Pending" THEN "ProposalAlreadyExecuted"
            ELSE IF is_expired(proposal, now) THEN "ProposalExpired"
            ELSE IF ~multisig.is_active THEN "MultisigPaused"
            ELSE IF ~InSeq(multisig.signers, signer) THEN "UnauthorizedSigner"
            ELSE IF has_approved(proposal, signer_index) THEN "AlreadyApproved"
            ELSE "Ok"
        approved == record_approval(proposal, signer_index)
    IN  /\ proposal_id + 1 \in DOMAIN proposals
        /\ lastCall' = Call("approve_proposal", signer, proposal_id, result)
        /\ IF result = "Ok"
           THEN /\ proposals' = [proposals EXCEPT ![proposal_id + 1] =
                       IF has_quorum(approved, multisig.threshold)
                       THEN [approved EXCEPT !.status = "Approved"]
                       ELSE approved]
                /\ approvedBy' = [approvedBy EXCEPT ![proposal_id + 1] = @ \cup {signer}]
                /\ UNCHANGED <<multisig, executions>>
           ELSE UNCHANGED govVars
        /\ UNCHANGED <<now, stakeVars, slashProbe, otherVars, repVars>>

(***************************************************************************)
(* execute_reputation_proposal (multisig.rs)                               *)
(***************************************************************************)
\* lines 301-303: the proposal after a successful execution
executed_leaves_status(proposal, clock) ==
    [proposal EXCEPT !.executed_at = clock]

executed_reopens(proposal, clock) ==
    [proposal EXCEPT !.status = "Pending", !.executed_at = clock]

executed(proposal, clock) ==
    [proposal EXCEPT !.status = "Executed", !.executed_at = clock]

execute_reputation_proposal_by_anyone(executor, proposal_id) ==
    LET proposal == proposals[proposal_id + 1]
        reputation == agent_reputation[proposal.target_agent]
        result ==
            IF proposal.status # "Approved" THEN "InsufficientApprovals"
            ELSE IF proposal.proposal_type # "UpdateReputation" THEN "InvalidAuthority"
            ELSE IF ~multisig.is_active THEN "MultisigPaused"
            ELSE "Ok"
    IN  /\ proposal_id + 1 \in DOMAIN proposals
        /\ lastCall' = Call("execute_reputation_proposal", executor, proposal_id, result)
        /\ IF result = "Ok"
           THEN /\ agent_reputation' = [agent_reputation EXCEPT ![proposal.target_agent] =
                       [reputation EXCEPT
                           !.overall_score = proposal.proposed_score,
                           !.component_scores = proposal.proposed_components,
                           !.stats = proposal.proposed_stats,
                           !.payment_proofs_merkle_root = proposal.proposed_merkle_root,
                           !.last_updated = now]]
                /\ proposals' = [proposals EXCEPT ![proposal_id + 1] = executed(proposal, now)]
                /\ executions' = [executions EXCEPT ![proposal_id + 1] = @ + 1]
                /\ UNCHANGED <<multisig, approvedBy, decayApplied>>
           ELSE UNCHANGED <<govVars, repVars>>
        /\ UNCHANGED <<now, stakeVars, slashProbe, otherVars>>

execute_reputation_proposal(executor, proposal_id) ==
    LET proposal == proposals[proposal_id + 1]
        reputation == agent_reputation[proposal.target_agent]
        result ==
            IF proposal.status # "Approved" THEN "InsufficientApprovals"
            ELSE IF proposal.proposal_type # "UpdateReputation" THEN "InvalidAuthority"
            ELSE IF ~multisig.is_active THEN "MultisigPaused"
            ELSE IF ~InSeq(multisig.signers, executor) THEN "UnauthorizedSigner"
            ELSE "Ok"
    IN  /\ proposal_id + 1 \in DOMAIN proposals
        /\ lastCall' = Call("execute_reputation_proposal", executor, proposal_id, result)
        /\ IF result = "Ok"
           THEN /\ agent_reputation' = [agent_reputation EXCEPT ![proposal.target_agent] =
                       [reputation EXCEPT
                           !.overall_score = proposal.proposed_score,
                           !.component_scores = proposal.proposed_components,
                           !.stats = proposal.proposed_stats,
                           !.payment_proofs_merkle_root = proposal.proposed_merkle_root,
                           !.last_updated = now]]
                /\ proposals' = [proposals EXCEPT ![proposal_id + 1] = executed(proposal, now)]
                /\ executions' = [executions EXCEPT ![proposal_id + 1] = @ + 1]
                /\ UNCHANGED <<multisig, approvedBy, decayApplied>>
           ELSE UNCHANGED <<govVars, repVars>>
        /\ UNCHANGED <<now, stakeVars, slashProbe, otherVars>>

(***************************************************************************)
(* add_signer, remove_signer, update_threshold, pause (multisig.rs):       *)
(* signed by the admin alone, outside the proposal flow                    *)
(***************************************************************************)
add_signer(caller, new_signer) ==
    LET result ==
            IF multisig.admin # caller THEN "UnauthorizedAdmin"
            ELSE IF ~(Len(multisig.signers) < MAX_MULTISIG_SIGNERS) THEN "MaxSignersReached"
            ELSE IF InSeq(multisig.signers, new_signer) THEN "SignerAlreadyExists"
            ELSE "Ok"
    IN  /\ lastCall' = Call("add_signer", caller, new_signer, result)
        /\ IF result = "Ok"
           THEN multisig' = [multisig EXCEPT !.signers = Append(@, new_signer)]
           ELSE UNCHANGED multisig
        /\ UNCHANGED <<now, stakeVars, slashProbe, otherVars, repVars,
                       proposals, approvedBy, executions>>

\* remove_signer without its threshold guard
remove_signer_below_threshold(caller, signer_to_remove) ==
    LET result ==
            IF multisig.admin # caller THEN "UnauthorizedAdmin"
            ELSE IF ~InSeq(multisig.signers, signer_to_remove) THEN "SignerNotFound"
            ELSE "Ok"
    IN  /\ lastCall' = Call("remove_signer", caller, signer_to_remove, result)
        /\ IF result = "Ok"
           THEN multisig' = [multisig EXCEPT !.signers =
                                 RemoveAt(@, position(@, signer_to_remove))]
           ELSE UNCHANGED multisig
        /\ UNCHANGED <<now, stakeVars, slashProbe, otherVars, repVars,
                       proposals, approvedBy, executions>>

remove_signer(caller, signer_to_remove) ==
    LET result ==
            IF multisig.admin # caller THEN "UnauthorizedAdmin"
            ELSE IF ~InSeq(multisig.signers, signer_to_remove) THEN "SignerNotFound"
            ELSE IF ~(Len(multisig.signers) > multisig.threshold) THEN "WouldGobelowThreshold"
            ELSE "Ok"
    IN  /\ lastCall' = Call("remove_signer", caller, signer_to_remove, result)
        /\ IF result = "Ok"
           THEN multisig' = [multisig EXCEPT !.signers =
                                 RemoveAt(@, position(@, signer_to_remove))]
           ELSE UNCHANGED multisig
        /\ UNCHANGED <<now, stakeVars, slashProbe, otherVars, repVars,
                       proposals, approvedBy, executions>>

update_threshold(caller, new_threshold) ==
    LET result ==
            IF multisig.admin # caller THEN "UnauthorizedAdmin"
            ELSE IF ~(new_threshold > 0 /\ new_threshold <= Len(multisig.signers))
                 THEN "InvalidThreshold"
            ELSE "Ok"
    IN  /\ lastCall' = Call("update_threshold", caller, new_threshold, result)
        /\ IF result = "Ok"
           THEN multisig' = [multisig EXCEPT !.threshold = new_threshold]
           ELSE UNCHANGED multisig
        /\ UNCHANGED <<now, stakeVars, slashProbe, otherVars, repVars,
                       proposals, approvedBy, executions>>

pause_multisig(caller) ==
    LET result == IF multisig.admin # caller THEN "UnauthorizedAdmin" ELSE "Ok"
    IN  /\ lastCall' = Call("pause_multisig", caller, 0, result)
        /\ IF result = "Ok"
           THEN multisig' = [multisig EXCEPT !.is_active = FALSE]
           ELSE UNCHANGED multisig
        /\ UNCHANGED <<now, stakeVars, slashProbe, otherVars, repVars,
                       proposals, approvedBy, executions>>

unpause_multisig(caller) ==
    LET result == IF multisig.admin # caller THEN "UnauthorizedAdmin" ELSE "Ok"
    IN  /\ lastCall' = Call("unpause_multisig", caller, 0, result)
        /\ IF result = "Ok"
           THEN multisig' = [multisig EXCEPT !.is_active = TRUE]
           ELSE UNCHANGED multisig
        /\ UNCHANGED <<now, stakeVars, slashProbe, otherVars, repVars,
                       proposals, approvedBy, executions>>

(***************************************************************************)
(* The multisig governance engine as a state machine                       *)
(***************************************************************************)
Payloads ==
    { [overall_score |-> 800, component_scores |-> Components(80, 80, 80, 80, 80),
       stats |-> Stats(10, 8, 2, 5, 40), merkle_root |-> "root1"],
      [overall_score |-> 50, component_scores |-> Components(5, 5, 5, 5, 5),
       stats |-> Stats(4, 1, 3, 1, 10), merkle_root |-> "root2"] }
ProposalTargets == {"a1"}
Thresholds == 1..(Cardinality(Keys) + 1)
AdminCallers == {Admin}
ProposalIds == 0..(MaxProposals - 1)

InitMultisig ==
    /\ now = Genesis
    /\ StakeInitialized
    /\ RateLimitInitialized
    /\ TokenStakingInitialized
    /\ ValidationInitialized
    /\ slashProbe = NoProbe
    /\ ReputationInitialized
    /\ \E threshold \in 1..Len(DefaultRoster) : GovInitialized(DefaultRoster, threshold)
    /\ lastCall = Call("initialize_multisig", Admin, 0, "Ok")

NextMultisig ==
    \/ \E k \in Keys, target \in ProposalTargets, payload \in Payloads :
           multisig.proposal_count < MaxProposals /\
           propose_reputation_update(k, target, payload)
    \/ \E k \in Keys, id \in ProposalIds : approve_proposal(k, id)
    \/ \E k \in Keys, id \in ProposalIds : execute_reputation_proposal(k, id)
    \/ \E c \in AdminCallers, k \in Keys : add_signer(c, k)
    \/ \E c \in AdminCallers, k \in Keys : remove_signer(c, k)
    \/ \E c \in AdminCallers, t \in Thresholds : update_threshold(c, t)

SpecMultisig == InitMultisig /\ [][NextMultisig]_vars


(***************************************************************************)
(* AgentReputation: time-weighted decay (state/mod.rs)                     *)
(***************************************************************************)
U16 == 2 ^ 16

\* current_time.saturating_sub(last_activity).saturating_div(SECONDS_PER_DAY)
days_inactive(reputation, current_time) ==
    (current_time - reputation.last_activity) \div SECONDS_PER_DAY

\* the halving loop of lines 120-123
RECURSIVE Halve(_, _)
Halve(decayed, periods) ==
    IF periods = 0 THEN decayed ELSE Halve(decayed \div 2, periods - 1)

\* lines 106-123: the score after the halvings, before the floor is applied
halved_score(reputation, current_time) ==
    LET effective_days == days_inactive(reputation, current_time) - DECAY_GRACE_PERIOD_DAYS
        decay_multiplier == Min(Max(reputation.decay_rate_bps, 100), 10000)
        periods == (effective_days * decay_multiplier) \div (DECAY_HALF_LIFE_DAYS * 10000)
    IN  Halve(reputation.base_score, Min(periods, 10)) % U16

\* calculate_decayed_score with a grace period that ends one day early
calculate_decayed_score_short_grace(reputation, current_time) ==
    IF ~reputation.decay_enabled THEN reputation.base_score
    ELSE IF days_inactive(reputation, current_time) < DECAY_GRACE_PERIOD_DAYS
         THEN reputation.base_score
    ELSE Max(halved_score(reputation, current_time), DECAY_MIN_SCORE)

calculate_decayed_score_unfloored(reputation, current_time) ==
    IF ~reputation.decay_enabled THEN reputation.base_score
    ELSE IF days_inactive(reputation, current_time) <= DECAY_GRACE_PERIOD_DAYS
         THEN reputation.base_score
    ELSE halved_score(reputation, current_time)

calculate_decayed_score(reputation, current_time) ==
    IF ~reputation.decay_enabled THEN reputation.base_score
    ELSE IF days_inactive(reputation, current_time) <= DECAY_GRACE_PERIOD_DAYS
         THEN reputation.base_score
    ELSE Max(halved_score(reputation, current_time), DECAY_MIN_SCORE)

\* get_effective_score that does not look at the decay_enabled flag
get_effective_score_flag_ignored(reputation, current_time) ==
    calculate_decayed_score(reputation, current_time)

get_effective_score(reputation, current_time) ==
    IF reputation.decay_enabled
    THEN calculate_decayed_score(reputation, current_time)
    ELSE reputation.overall_score

(***************************************************************************)
(* update_reputation (update_reputation.rs), signed by the authority       *)
(***************************************************************************)
update_reputation(a, payload) ==
    LET reputation == agent_reputation[a]
        c == payload.component_scores
        result ==
            IF ~(payload.overall_score <= 1000) THEN "InvalidOverallScore"
            ELSE IF ~(c.trust <= 100 /\ c.quality <= 100 /\ c.reliability <= 100
                      /\ c.economic <= 100 /\ c.social <= 100)
                 THEN "InvalidComponentScore"
            ELSE IF ~(payload.stats.avg_review_rating <= 50) THEN "InvalidReviewRating"
            ELSE "Ok"
    IN  /\ lastCall' = Call("update_reputation", a, payload.overall_score, result)
        /\ IF result = "Ok"
           THEN agent_reputation' = [agent_reputation EXCEPT ![a] =
                    [reputation EXCEPT
                        !.overall_score = payload.overall_score,
                        !.component_scores = payload.component_scores,
                        !.stats = payload.stats,
                        !.payment_proofs_merkle_root = payload.merkle_root,
                        !.last_updated = now]]
           ELSE UNCHANGED agent_reputation
        /\ UNCHANGED <<now, stakeVars, slashProbe, otherVars, govVars, decayApplied>>

(***************************************************************************)
(* apply_decay, enable_decay, disable_decay, record_activity and           *)
(* get_effective_score (decay.rs); the owner-only ones are signed by the   *)
(* agent itself                                                            *)
(***************************************************************************)
\* apply_decay persisting its result as the new anchor as well
apply_decay_reanchors(a) ==
    LET reputation == agent_reputation[a]
        result == IF ~reputation.decay_enabled THEN "DecayNotEnabled" ELSE "Ok"
        decayed_score == calculate_decayed_score(reputation, now)
    IN  /\ lastCall' = Call("apply_decay", a, 0, result)
        /\ IF result = "Ok"
           THEN /\ agent_reputation' = [agent_reputation EXCEPT ![a] =
                       [reputation EXCEPT !.overall_score = decayed_score,
                                          !.base_score = decayed_score,
                                          !.last_updated = now]]
                /\ decayApplied' = decayApplied \cup {a}
           ELSE UNCHANGED repVars
        /\ UNCHANGED <<now, stakeVars, slashProbe, otherVars, govVars>>

\* apply_decay stamping last_updated before it tests decay_enabled, the
\* stamp surviving the refusal
apply_decay_stamps_first(a) ==
    LET reputation == agent_reputation[a]
        result == IF ~reputation.decay_enabled THEN "DecayNotEnabled" ELSE "Ok"
        decayed_score == calculate_decayed_score(reputation, now)
    IN  /\ lastCall' = Call("apply_decay", a, 0, result)
        /\ IF result = "Ok"
           THEN /\ agent_reputation' = [agent_reputation EXCEPT ![a] =
                       [reputation EXCEPT !.overall_score = decayed_score,
                                          !.last_updated = now]]
                /\ decayApplied' = decayApplied \cup {a}
           ELSE /\ agent_reputation' = [agent_reputation EXCEPT ![a] =
                       [reputation EXCEPT !.last_updated = now]]
                /\ UNCHANGED decayApplied
        /\ UNCHANGED <<now, stakeVars, slashProbe, otherVars, govVars>>

apply_decay(a) ==
    LET reputation == agent_reputation[a]
        result == IF ~reputation.decay_enabled THEN "DecayNotEnabled" ELSE "Ok"
        decayed_score == calculate_decayed_score(reputation, now)
    IN  /\ lastCall' = Call("apply_decay", a, 0, result)
        /\ IF result = "Ok"
           THEN /\ agent_reputation' = [agent_reputation EXCEPT ![a] =
                       [reputation EXCEPT !.overall_score = decayed_score,
                                          !.last_updated = now]]
                /\ decayApplied' = decayApplied \cup {a}
           ELSE UNCHANGED repVars
        /\ UNCHANGED <<now, stakeVars, slashProbe, otherVars, govVars>>

enable_decay(a, decay_rate_bps) ==
    LET reputation == agent_reputation[a]
        result == IF ~(decay_rate_bps >= 100 /\ decay_rate_bps <= 10000)
                  THEN "InvalidDecayRate" ELSE "Ok"
    IN  /\ lastCall' = Call("enable_decay", a, decay_rate_bps, result)
        /\ IF result = "Ok"
           THEN agent_reputation' = [agent_reputation EXCEPT ![a] =
                    [reputation EXCEPT !.base_score = reputation.overall_score,
                                       !.last_activity = now,
                                       !.decay_enabled = TRUE,
                                       !.decay_rate_bps = decay_rate_bps,
                                       !.last_updated = now]]
           ELSE UNCHANGED agent_reputation
        /\ UNCHANGED <<now, stakeVars, slashProbe, otherVars, govVars, decayApplied>>

disable_decay(a) ==
    /\ lastCall' = Call("disable_decay", a, 0, "Ok")
    /\ agent_reputation' = [agent_reputation EXCEPT ![a] =
           [@ EXCEPT !.decay_enabled = FALSE, !.last_updated = now]]
    /\ UNCHANGED <<now, stakeVars, slashProbe, otherVars, govVars, decayApplied>>

record_activity(a) ==
    LET reputation == agent_reputation[a]
    IN  /\ lastCall' = Call("record_activity", a, 0, "Ok")
        /\ agent_reputation' = [agent_reputation EXCEPT ![a] =
               [reputation EXCEPT
                   !.last_activity = now,
                   !.last_updated = now,
                   !.base_score = IF reputation.decay_enabled
                                  THEN reputation.overall_score ELSE @]]
        /\ UNCHANGED <<now, stakeVars, slashProbe, otherVars, govVars, decayApplied>>

\* the view instruction: returns the effective score, writes nothing
get_effective_score_view(a) ==
    /\ lastCall' = Call("get_effective_score", a,
                        get_effective_score(agent_reputation[a], now), "Ok")
    /\ UNCHANGED <<now, stakeVars, slashProbe, otherVars, govVars, repVars>>

(***************************************************************************)
(* Reputation decay as a state machine                                     *)
(***************************************************************************)
DecayAgents == {"a1"}
StartScores == {0, 50, 100, 1000, 1001}
DecayPayloads ==
    { [overall_score |-> score, component_scores |-> Components(80, 80, 80, 80, 80),
       stats |-> Stats(10, 8, 2, 5, 40), merkle_root |-> "root1"] : score \in StartScores }
DecayRates == {99, 100, 10000}

\* the clock readings of a decay run, in days after Genesis: the last day of
\* the grace period, the first day after it, the first halving at the full
\* rate (30 + 90) and the day all ten halvings have happened (30 + 10 * 90)
MaxDecayDays == 930
DecayDays == {30, 31, 120, MaxDecayDays}

DecayTick(day) ==
    /\ Genesis + day * SECONDS_PER_DAY > now
    /\ now' = Genesis + day * SECONDS_PER_DAY
    /\ lastCall' = Call("tick", "clock", 0, "Ok")
    /\ UNCHANGED <<stakeVars, slashProbe, otherVars, govVars, repVars>>

InitDecay ==
    /\ now = Genesis
    /\ StakeInitialized
    /\ RateLimitInitialized
    /\ TokenStakingInitialized
    /\ ValidationInitialized
    /\ slashProbe = NoProbe
    /\ GovInitialized(DefaultRoster, 2)
    /\ ReputationInitialized
    /\ lastCall = Call("initialize_reputation", "authority", 0, "Ok")

NextDecay ==
    \/ \E a \in DecayAgents, payload \in DecayPayloads : update_reputation(a, payload)
    \/ \E a \in DecayAgents, rate \in DecayRates : enable_decay(a, rate)
    \/ \E a \in DecayAgents : disable_decay(a)
    \/ \E a \in DecayAgents : record_activity(a)
    \/ \E a \in DecayAgents : apply_decay(a)
    \/ \E a \in DecayAgents : get_effective_score_view(a)
    \/ \E day \in DecayDays : DecayTick(day)

SpecDecay == InitDecay /\ [][NextDecay]_vars


(***************************************************************************)
(* The reputation record under all of its writers: the single-authority    *)
(* update, multisig governance and decay, on one agent                     *)
(***************************************************************************)
\* proposed and updated scores: one in range, one that only fits the u16
OUT_OF_RANGE_SCORE == 2000
ScorePayloads ==
    { [overall_score |-> score, component_scores |-> Components(80, 80, 80, 80, 80),
       stats |-> Stats(10, 8, 2, 5, 40), merkle_root |-> "root1"] :
      score \in {800, OUT_OF_RANGE_SCORE} }
RepSigners == {"k1", "k2"}
RepRates == {10000}
RepDays == {DECAY_GRACE_PERIOD_DAYS, DECAY_GRACE_PERIOD_DAYS + DECAY_HALF_LIFE_DAYS}

InitReputation ==
    /\ now = Genesis
    /\ StakeInitialized
    /\ RateLimitInitialized
    /\ TokenStakingInitialized
    /\ ValidationInitialized
    /\ slashProbe = NoProbe
    /\ GovInitialized(DefaultRoster, 2)
    /\ ReputationInitialized
    /\ lastCall = Call("initialize_reputation", "authority", 0, "Ok")

NextReputation ==
    \/ \E a \in DecayAgents, payload \in ScorePayloads : update_reputation(a, payload)
    \/ \E k \in RepSigners, a \in DecayAgents, payload \in ScorePayloads :
           multisig.proposal_count < MaxProposals /\
           propose_reputation_update(k, a, payload)
    \/ \E k \in RepSigners, id \in ProposalIds : approve_proposal(k, id)
    \/ \E k \in RepSigners, id \in ProposalIds : execute_reputation_proposal(k, id)
    \/ \E a \in DecayAgents, rate \in RepRates : enable_decay(a, rate)
    \/ \E a \in DecayAgents : disable_decay(a)
    \/ \E a \in DecayAgents : record_activity(a)
    \/ \E a \in DecayAgents : apply_decay(a)
    \/ \E day \in RepDays : DecayTick(day)

SpecReputation == InitReputation /\ [][NextReputation]_vars


(***************************************************************************)
(* One proposal under a fixed roster and threshold, with the clock         *)
(***************************************************************************)
\* the clock readings of a governance run: creation time, the last second of
\* the 48 h approval window, and the first second after it
GovClock == {Genesis, Genesis + PROPOSAL_EXPIRY_SECONDS,
             Genesis + PROPOSAL_EXPIRY_SECONDS + 1}

GovTick(t) ==
    /\ t > now
    /\ now' = t
    /\ lastCall' = Call("tick", "clock", 0, "Ok")
    /\ UNCHANGED <<stakeVars, slashProbe, otherVars, govVars, repVars>>

InitProposal ==
    /\ now = Genesis
    /\ StakeInitialized
    /\ RateLimitInitialized
    /\ TokenStakingInitialized
    /\ ValidationInitialized
    /\ slashProbe = NoProbe
    /\ ReputationInitialized
    /\ \E threshold \in 1..Len(DefaultRoster) : GovInitialized(DefaultRoster, threshold)
    /\ lastCall = Call("initialize_multisig", Admin, 0, "Ok")

NextProposal ==
    \/ \E k \in Keys, target \in ProposalTargets, payload \in Payloads :
           multisig.proposal_count < MaxProposals /\
           propose_reputation_update(k, target, payload)
    \/ \E k \in Keys, id \in ProposalIds : approve_proposal(k, id)
    \/ \E k \in Keys, id \in ProposalIds : execute_reputation_proposal(k, id)
    \/ \E t \in GovClock : GovTick(t)

SpecProposal == InitProposal /\ [][NextProposal]_vars


(***************************************************************************)
(* The roster and the threshold from initialize_multisig on                *)
(***************************************************************************)
\* the MultisigAuthority PDA before initialize_multisig created it
NoMultisig ==
    [ signers |-> <<>>,
      threshold |-> 0,
      proposal_count |-> 0,
      admin |-> "none",
      is_active |-> FALSE ]

\* initialize_multisig(signers, threshold); `init` refuses an existing account
initialize_multisig(caller, signers, threshold) ==
    LET result ==
            IF multisig # NoMultisig THEN "AccountAlreadyInUse"
            ELSE IF ~(Len(signers) # 0 /\ Len(signers) <= MAX_MULTISIG_SIGNERS)
                 THEN "MaxSignersReached"
            ELSE IF ~(threshold > 0 /\ threshold <= Len(signers)) THEN "InvalidThreshold"
            ELSE "Ok"
    IN  /\ lastCall' = Call("initialize_multisig", caller, threshold, result)
        /\ IF result = "Ok"
           THEN multisig' = [ signers |-> signers,
                              threshold |-> threshold,
                              proposal_count |-> 0,
                              admin |-> caller,
                              is_active |-> TRUE ]
           ELSE UNCHANGED multisig
        /\ UNCHANGED <<now, stakeVars, slashProbe, otherVars, repVars,
                       proposals, approvedBy, executions>>

FullRoster == <<"k1", "k2", "k3", "k4", "k5", "k6", "k7">>
\* the signers arguments tried: empty, one key, a repeated key, three keys,
\* one short of the maximum, the maximum, one more than the maximum
RosterArgs == { <<>>, <<"k1">>, <<"k1", "k1">>, DefaultRoster,
                SubSeq(FullRoster, 1, MAX_MULTISIG_SIGNERS - 1),
                FullRoster, Append(FullRoster, "k8") }
RosterKeys == {"k1", "k7", "k8"}
RosterCallers == {Admin, "k1"}
RosterThresholds == 0..(MAX_MULTISIG_SIGNERS + 1)

InitRoster ==
    /\ now = Genesis
    /\ StakeInitialized
    /\ RateLimitInitialized
    /\ TokenStakingInitialized
    /\ ValidationInitialized
    /\ slashProbe = NoProbe
    /\ ReputationInitialized
    /\ multisig = NoMultisig
    /\ proposals = <<>>
    /\ approvedBy = <<>>
    /\ executions = <<>>
    /\ lastCall = Call("genesis", "clock", 0, "Ok")

\* an instruction on the MultisigAuthority account needs the account to exist
NextRoster ==
    \/ \E c \in RosterCallers, signers \in RosterArgs, t \in RosterThresholds :
           initialize_multisig(c, signers, t)
    \/ \E c \in RosterCallers, k \in RosterKeys :
           multisig # NoMultisig /\ add_signer(c, k)
    \/ \E c \in RosterCallers, k \in RosterKeys :
           multisig # NoMultisig /\ remove_signer(c, k)
    \/ \E c \in RosterCallers, t \in RosterThresholds :
           multisig # NoMultisig /\ update_threshold(c, t)

SpecRoster == InitRoster /\ [][NextRoster]_vars


(***************************************************************************)
(* The core operations of both programs side by side: staking on one       *)
(* agent, decay on its reputation, one proposal, the roster                 *)
(***************************************************************************)
\* the successful stake, unstake and slash calls of a run
MaxCoreCalls == 2
CoreAgents == {"a1"}
CoreStakeAmounts == {HALF_MIN_STAKE, MIN_STAKE_AMOUNT}
CoreUnstakeAmounts(a) ==
    {agent_identity[a].staked_amount,
     SubSeq(AddLimbs(agent_identity[a].staked_amount, U64(1), 1, 0), 1, U64Limbs)}
CoreSeverities == {3300, 10001}
CoreRates == {99, 10000}
CoreSigners == {"k1", "k3"}
CoreRosterKeys == {"k3"}
CoreThresholds == {0, 2}
CorePayloads ==
    { [overall_score |-> 800, component_scores |-> Components(80, 80, 80, 80, 80),
       stats |-> Stats(10, 8, 2, 5, 40), merkle_root |-> "root1"] }

InitCore ==
    /\ now = Genesis
    /\ StakeInitialized
    /\ RateLimitInitialized
    /\ TokenStakingInitialized
    /\ ValidationInitialized
    /\ slashProbe = NoProbe
    /\ ReputationInitialized
    /\ GovInitialized(DefaultRoster, 2)
    /\ lastCall = Call("initialize_multisig", Admin, 0, "Ok")

NextCore ==
    \/ \E a \in CoreAgents, amount \in CoreStakeAmounts :
           CallsMade < MaxCoreCalls /\ stake_collateral(a, amount)
    \/ \E a \in CoreAgents : \E amount \in CoreUnstakeAmounts(a) :
           CallsMade < MaxCoreCalls /\ unstake_collateral(a, amount)
    \/ \E a \in CoreAgents, severity \in CoreSeverities :
           CallsMade < MaxCoreCalls /\ slash_agent(a, severity)
    \/ \E a \in CoreAgents, rate \in CoreRates : enable_decay(a, rate)
    \/ \E a \in CoreAgents : apply_decay(a)
    \/ \E k \in CoreSigners, target \in CoreAgents, payload \in CorePayloads :
           multisig.proposal_count < MaxProposals /\
           propose_reputation_update(k, target, payload)
    \/ \E k \in CoreSigners, id \in ProposalIds : approve_proposal(k, id)
    \/ \E k \in CoreSigners, id \in ProposalIds : execute_reputation_proposal(k, id)
    \/ \E c \in AdminCallers, k \in CoreRosterKeys : add_signer(c, k)
    \/ \E c \in AdminCallers, k \in CoreRosterKeys : remove_signer(c, k)
    \/ \E c \in AdminCallers, t \in CoreThresholds : update_threshold(c, t)
    \/ Tick(STAKE_UNLOCK_PERIOD)

SpecCore == InitCore /\ [][NextCore]_vars


(***************************************************************************)
(* Staking under the two pause switches: the pool's and the program's      *)
(***************************************************************************)
PauseAgents == {"a1"}
PauseStakeAmounts == {HALF_MIN_STAKE, MIN_STAKE_AMOUNT}
PauseSeverities == {3300}
PauseCallers == {Admin, "a1"}
PauseReasons == {20, MAX_PAUSE_REASON_LEN + 1}

InitPause ==
    /\ now = Genesis
    /\ StakeInitialized
    /\ RateLimitInitialized
    /\ TokenStakingInitialized
    /\ ValidationInitialized
    /\ slashProbe = NoProbe
    /\ GovInitialized(DefaultRoster, 2)
    /\ ReputationInitialized
    /\ lastCall = Call("initialize_program_config", Admin, 0, "Ok")

NextPause ==
    \/ \E a \in PauseAgents, amount \in PauseStakeAmounts : stake_collateral(a, amount)
    \/ \E a \in PauseAgents : unstake_collateral(a, agent_identity[a].staked_amount)
    \/ \E a \in PauseAgents, severity \in PauseSeverities : slash_agent(a, severity)
    \/ pause_staking
    \/ unpause_staking
    \/ \E c \in PauseCallers, reason \in PauseReasons : pause_program(c, reason)
    \/ \E c \in PauseCallers : unpause_program(c)
    \/ Tick(STAKE_UNLOCK_PERIOD)

SpecPause == InitPause /\ [][NextPause]_vars


(***************************************************************************)
(* Properties of the staking ledger                                        *)
(***************************************************************************)
StakedAmounts == [a \in Agents |-> agent_identity[a].staked_amount]

\* C1: in every reachable state, after any successful or failing stake,
\* unstake and slash calls, the pool's total_staked is the sum of the agents'
\* staked_amount.
C1_TotalStakedIsSum ==
    Widen(staking_pool.total_staked) = SumWide(StakedAmounts, Agents)

\* C1 witness: an unstake has just succeeded after a slash, with stake left
\* in the pool.
C1_Witness ==
    /\ lastCall.op = "unstake_collateral" /\ lastCall.result = "Ok"
    /\ staking_pool.total_slashed # U64_ZERO
    /\ staking_pool.total_staked # U64_ZERO

\* the slash of the specification, computed exactly (no wraparound, no
\* substitution): floor(staked * min(floor(s*s/10000), 5000) / 10000)
ExactSlash(staked_amount, s) ==
    DivExact(MulExact(staked_amount, Min((s * s) \div 10000, 5000)), 10000)

\* C6 (as claimed): for every u64 stake and severities a <= b in 0..10000 the
\* slash at a is at most the slash at b, the slash at 0 is 0, and the slash at
\* 10000 is at most staked * MAX_SLASH_BPS / 10000.
C6_SlashCurve ==
    slashProbe.done =>
        /\ slashProbe.a <= slashProbe.b => Le(slashProbe.at_a, slashProbe.at_b)
        /\ calculate_slash_amount(slashProbe.staked, 0) = U64_ZERO
        /\ Le(Widen(calculate_slash_amount(slashProbe.staked, 10000)),
              DivExact(MulExact(slashProbe.staked, MAX_SLASH_BPS), 10000))

\* C7 (as claimed): whenever slash_agent is called with a severity in
\* 0..10000, it succeeds if the exact quadratic slash of the position is
\* positive, and what a successful call removes from the position is that
\* exact amount.
C7_SlashIsExact ==
    [][ (lastCall'.op = "slash_agent" /\ lastCall'.arg <= 10000) =>
          LET a == lastCall'.who
              exact == ExactSlash(agent_identity[a].staked_amount, lastCall'.arg)
          IN  /\ exact # Widen(U64_ZERO) => lastCall'.result = "Ok"
              /\ lastCall'.result = "Ok" =>
                    Widen(SubLimbs(agent_identity[a].staked_amount,
                                   agent_identity'[a].staked_amount, 1, 0)) = exact
      ]_vars

\* C8: an unstake on a position holding stake fails with StakeLocked (and
\* changes nothing) while the clock is before stake_unlock_timestamp, and
\* from that timestamp on it succeeds for every amount up to the stake.
C8_UnstakeLock ==
    [][ (lastCall'.op = "unstake_collateral"
            /\ agent_identity[lastCall'.who].staked_amount # U64_ZERO) =>
          LET identity == agent_identity[lastCall'.who]
          IN  /\ now < identity.stake_unlock_timestamp =>
                    /\ lastCall'.result = "StakeLocked"
                    /\ UNCHANGED <<agent_identity, staking_pool, lamports>>
              /\ (now >= identity.stake_unlock_timestamp
                    /\ Le(lastCall'.arg, identity.staked_amount)) =>
                    /\ lastCall'.result = "Ok"
                    /\ checked_add(agent_identity'[lastCall'.who].staked_amount,
                                   lastCall'.arg) = Some(identity.staked_amount)
      ]_vars

\* C8 witness: a partial unstake has just succeeded at the very second the
\* lock ran out.
C8_Witness ==
    /\ lastCall.op = "unstake_collateral" /\ lastCall.result = "Ok"
    /\ agent_identity[lastCall.who].staked_amount # U64_ZERO
    /\ agent_identity[lastCall.who].stake_unlock_timestamp = now

\* C8 (locked case reached): an unstake was refused with StakeLocked on day 6
\* of the 7-day lock.
C8_LockedOnDaySix ==
    /\ lastCall.op = "unstake_collateral" /\ lastCall.result = "StakeLocked"
    /\ agent_identity[lastCall.who].staked_amount # U64_ZERO
    /\ agent_identity[lastCall.who].stake_unlock_timestamp = now + SECONDS_PER_DAY

\* C9: every successful stake_collateral leaves stake_unlock_timestamp at or
\* after its value before the call.
C9_LockNeverShortens ==
    [][ (lastCall'.op = "stake_collateral" /\ lastCall'.result = "Ok") =>
          agent_identity'[lastCall'.who].stake_unlock_timestamp
              >= agent_identity[lastCall'.who].stake_unlock_timestamp
      ]_vars

\* C9 witness: a top-up of a still locked position has just succeeded at a
\* later clock than the first contribution.
C9_Witness ==
    /\ lastCall.op = "stake_collateral" /\ lastCall.result = "Ok"
    /\ Lt(lastCall.arg, agent_identity[lastCall.who].staked_amount)
    /\ now > Genesis

(***************************************************************************)
(* Properties of the multisig governance engine                            *)
(***************************************************************************)
\* the proposal an approve or execute call of the last step addressed
Addressed(call) == call.arg + 1

\* C2: under any interleaving of approve_proposal with add_signer and
\* remove_signer, a proposal's approval_count never exceeds the number of
\* distinct signer keys that have approved it (the proposer included).
C2_CountIsDistinctKeys ==
    \A i \in DOMAIN proposals :
        proposals[i].approval_count <= Cardinality(approvedBy[i])

\* C3: the payload of a proposal is written to the target AgentReputation
\* exactly once: an execute that succeeds starts from Approved, has not
\* happened before, writes the proposed values and marks the proposal
\* Executed; every other execute call fails and changes neither the proposal
\* nor the reputation record, and on an Executed proposal it fails on the
\* status check (InsufficientApprovals).
C3_ExecuteOnce ==
    [][ /\ \A i \in DOMAIN executions' : executions'[i] <= 1
        /\ lastCall'.op = "execute_reputation_proposal" =>
             LET i == Addressed(lastCall')
                 proposal == proposals[i]
                 target == proposal.target_agent
             IN  IF lastCall'.result = "Ok"
                 THEN /\ proposal.status = "Approved"
                      /\ executions[i] = 0 /\ executions'[i] = 1
                      /\ proposals'[i].status = "Executed"
                      /\ agent_reputation'[target].overall_score = proposal.proposed_score
                      /\ agent_reputation'[target].component_scores = proposal.proposed_components
                      /\ agent_reputation'[target].stats = proposal.proposed_stats
                      /\ agent_reputation'[target].payment_proofs_merkle_root
                             = proposal.proposed_merkle_root
                 ELSE /\ proposals' = proposals
                      /\ agent_reputation' = agent_reputation
                      /\ executions' = executions
                      /\ proposal.status = "Executed"
                             => lastCall'.result = "InsufficientApprovals" ]_vars

\* a second execute on an executed proposal has just been refused
C3_Witness ==
    /\ lastCall.op = "execute_reputation_proposal"
    /\ lastCall.result = "InsufficientApprovals"
    /\ Addressed(lastCall) \in DOMAIN proposals
    /\ proposals[Addressed(lastCall)].status = "Executed"
    /\ executions[Addressed(lastCall)] = 1
    /\ agent_reputation[proposals[Addressed(lastCall)].target_agent].overall_score
           = proposals[Addressed(lastCall)].proposed_score

\* C4: an approve_proposal call by a key whose approval of the same proposal
\* was already recorded (by an earlier approve or by propose) fails with
\* AlreadyApproved and leaves approval_count and approval_bitmap unchanged.
C4_SecondApproveRefused ==
    [][ (/\ lastCall'.op = "approve_proposal"
         /\ lastCall'.who \in approvedBy[Addressed(lastCall')])
        => /\ lastCall'.result = "AlreadyApproved"
           /\ proposals'[Addressed(lastCall')].approval_count
                  = proposals[Addressed(lastCall')].approval_count
           /\ proposals'[Addressed(lastCall')].approval_bitmap
                  = proposals[Addressed(lastCall')].approval_bitmap ]_vars

\* C5: execute_reputation_proposal succeeds only when the proposal's
\* approval_count is at least the threshold in force at the time of the call.
C5_ExecuteNeedsQuorumNow ==
    [][ (/\ lastCall'.op = "execute_reputation_proposal"
         /\ lastCall'.result = "Ok")
        => proposals[Addressed(lastCall')].approval_count >= multisig.threshold ]_vars

(***************************************************************************)
(* Properties of reputation decay                                          *)
(***************************************************************************)
JustApplied(a) == lastCall = Call("apply_decay", a, 0, "Ok")

\* C10 (as stated): once enable_decay has succeeded and apply_decay has run
\* at least once for an agent, its effective score, and the overall_score an
\* apply_decay has just persisted, is at least DECAY_MIN_SCORE at every
\* elapsed time.
C10_FloorOnceApplied ==
    \A a \in decayApplied :
        /\ get_effective_score(agent_reputation[a], now) >= DECAY_MIN_SCORE
        /\ JustApplied(a) => agent_reputation[a].overall_score >= DECAY_MIN_SCORE

\* C10 (amended): while decay is enabled and more than DECAY_GRACE_PERIOD_DAYS
\* whole days have passed since last_activity, the effective score is at
\* least DECAY_MIN_SCORE, and so is the overall_score an apply_decay has just
\* persisted; within the grace period the effective score is base_score,
\* whatever its value.
C10_FloorPastGrace ==
    \A a \in Agents :
        LET reputation == agent_reputation[a]
        IN  reputation.decay_enabled =>
              IF days_inactive(reputation, now) > DECAY_GRACE_PERIOD_DAYS
              THEN /\ get_effective_score(reputation, now) >= DECAY_MIN_SCORE
                   /\ JustApplied(a) => reputation.overall_score >= DECAY_MIN_SCORE
              ELSE get_effective_score(reputation, now) = reputation.base_score

\* apply_decay has just floored a score of 1000 after all ten halvings
C10_Witness ==
    \E a \in decayApplied :
        /\ JustApplied(a)
        /\ agent_reputation[a].base_score = 1000
        /\ days_inactive(agent_reputation[a], now) >= MaxDecayDays
        /\ agent_reputation[a].overall_score = DECAY_MIN_SCORE

\* apply_decay within the grace period has persisted a score below the floor
C10_BelowFloorInGrace ==
    \E a \in decayApplied :
        /\ JustApplied(a)
        /\ days_inactive(agent_reputation[a], now) <= DECAY_GRACE_PERIOD_DAYS
        /\ agent_reputation[a].overall_score < DECAY_MIN_SCORE

\* C11: with decay enabled and no write to the record, the effective score
\* is non-increasing in the current time: over every step that leaves an
\* agent's record as it is, the effective score at the later clock reading
\* is at most the one at the earlier reading.
C11_DecayMonotone ==
    [][ \A a \in Agents :
          (/\ agent_reputation'[a] = agent_reputation[a]
           /\ agent_reputation[a].decay_enabled)
          => get_effective_score(agent_reputation[a], now')
                 <= get_effective_score(agent_reputation[a], now) ]_vars

\* C12: with decay enabled, the effective score right after a successful
\* record_activity is never greater than the effective score right before
\* it, whether or not apply_decay ran beforehand.
C12_ActivityRecoversNothing ==
    [][ (/\ lastCall'.op = "record_activity"
         /\ lastCall'.result = "Ok"
         /\ agent_reputation[lastCall'.who].decay_enabled)
        => get_effective_score(agent_reputation'[lastCall'.who], now')
               <= get_effective_score(agent_reputation[lastCall'.who], now) ]_vars

(***************************************************************************)
(* Properties of the reputation record under all of its writers            *)
(***************************************************************************)
\* C13: every governance write of overall_score (a successful
\* execute_reputation_proposal) re-anchors the decay base: right after it
\* base_score equals the newly written overall_score, and with decay enabled
\* the effective score is the governance-written score.
C13_ExecuteReanchors ==
    [][ (/\ lastCall'.op = "execute_reputation_proposal"
         /\ lastCall'.result = "Ok")
        => LET proposal == proposals[Addressed(lastCall')]
               written == agent_reputation'[proposal.target_agent]
           IN  /\ written.overall_score = proposal.proposed_score
               /\ written.base_score = written.overall_score
               /\ written.decay_enabled
                      => get_effective_score(written, now') = proposal.proposed_score ]_vars

\* C14: in every reachable state overall_score and base_score of every
\* AgentReputation lie in 0..1000.
C14_ScoresInRange ==
    \A a \in Agents :
        /\ agent_reputation[a].overall_score \in 0..1000
        /\ agent_reputation[a].base_score \in 0..1000

\* C15: overall_score changes only through a successful
\* execute_reputation_proposal or apply_decay; no other instruction
\* modifies it.
C15_OnlyGovernanceOrDecayWrites ==
    [][ \A a \in Agents :
          agent_reputation'[a].overall_score # agent_reputation[a].overall_score
          => /\ lastCall'.op \in {"execute_reputation_proposal", "apply_decay"}
             /\ lastCall'.result = "Ok" ]_vars

(***************************************************************************)
(* Properties of the proposal life cycle                                   *)
(***************************************************************************)
\* the status changes the life cycle allows
ForwardStatus == { <<"Pending", "Approved">>, <<"Approved", "Executed">>,
                   <<"Pending", "Expired">> }
SignerIndexes == 0..(MAX_MULTISIG_SIGNERS - 1)

\* C16: a proposal's status moves only forward along Pending -> Approved ->
\* Executed (or Pending -> Expired): it never returns to an earlier status,
\* nothing leaves Executed, no approval bit once set is cleared, and execute
\* succeeds only when the status is Approved.
C16_StatusForwardOnly ==
    [][ /\ \A i \in DOMAIN proposals :
             /\ \/ proposals'[i].status = proposals[i].status
                \/ <<proposals[i].status, proposals'[i].status>> \in ForwardStatus
             /\ proposals[i].status = "Executed" => proposals'[i].status = "Executed"
             /\ \A idx \in SignerIndexes :
                    has_approved(proposals[i], idx) => has_approved(proposals'[i], idx)
        /\ (/\ lastCall'.op = "execute_reputation_proposal"
            /\ lastCall'.result = "Ok")
           => proposals[Addressed(lastCall')].status = "Approved" ]_vars

\* a proposal has gone through Pending, Approved and Executed with two bits set
C16_Witness ==
    /\ lastCall.op = "execute_reputation_proposal"
    /\ lastCall.result = "Ok"
    /\ \E i \in DOMAIN proposals :
           /\ proposals[i].status = "Executed"
           /\ Cardinality({idx \in SignerIndexes : has_approved(proposals[i], idx)}) >= 2

\* C17: with a fixed threshold T a proposal is Pending while
\* approval_count < T, is no longer Pending once approval_count has reached
\* T, and turns Approved in exactly the approve_proposal call that raises
\* approval_count to T.
C17_ApprovedExactlyAtThreshold ==
    [][ \A i \in DOMAIN proposals' :
          LET T == multisig'.threshold
              after == proposals'[i]
          IN  /\ multisig'.threshold = multisig.threshold
              /\ after.approval_count < T => after.status = "Pending"
              /\ after.approval_count >= T => after.status # "Pending"
              /\ (/\ i \in DOMAIN proposals
                  /\ proposals[i].status = "Pending"
                  /\ after.status = "Approved")
                 => /\ lastCall' = Call("approve_proposal", lastCall'.who, i - 1, "Ok")
                    /\ proposals[i].approval_count = T - 1
                    /\ after.approval_count = T ]_vars

\* C18: approve_proposal by a roster signer who has not yet approved succeeds
\* on a proposal that is already Approved and not expired: approval_count
\* grows by one and the status stays Approved.
C18_ApproveAfterQuorum ==
    [][ (/\ lastCall'.op = "approve_proposal"
         /\ proposals[Addressed(lastCall')].status = "Approved"
         /\ now <= proposals[Addressed(lastCall')].created_at + PROPOSAL_EXPIRY_SECONDS
         /\ multisig.is_active
         /\ InSeq(multisig.signers, lastCall'.who)
         /\ ~has_approved(proposals[Addressed(lastCall')],
                          position(multisig.signers, lastCall'.who)))
        => /\ lastCall'.result = "Ok"
           /\ proposals'[Addressed(lastCall')].approval_count
                  = proposals[Addressed(lastCall')].approval_count + 1
           /\ proposals'[Addressed(lastCall')].status = "Approved" ]_vars

C19_RefusedAfterWindow ==
    /\ lastCall.op = "approve_proposal"
    /\ lastCall.result = "ProposalExpired"
    /\ now = proposals[Addressed(lastCall)].created_at + PROPOSAL_EXPIRY_SECONDS + 1

\* C20: execute_reputation_proposal called later than created_at + 48 h on
\* an Approved proposal fails and does not modify the target AgentReputation.
C20_ExpiryAtExecute ==
    [][ (/\ lastCall'.op = "execute_reputation_proposal"
         /\ proposals[Addressed(lastCall')].status = "Approved"
         /\ now > proposals[Addressed(lastCall')].created_at + PROPOSAL_EXPIRY_SECONDS)
        => /\ lastCall'.result # "Ok"
           /\ agent_reputation' = agent_reputation ]_vars

(***************************************************************************)
(* Properties of the roster                                                *)
(***************************************************************************)
\* C21: from initialize_multisig on, through add_signer, remove_signer and
\* update_threshold with arbitrary arguments, 1 <= threshold <= len(signers)
\* <= MAX_MULTISIG_SIGNERS; a call that would break this is rejected, and a
\* rejected call leaves the multisig account as it was
C21_ThresholdWithinRoster ==
    [][ /\ multisig' # NoMultisig =>
            /\ 1 <= multisig'.threshold
            /\ multisig'.threshold <= Len(multisig'.signers)
            /\ Len(multisig'.signers) <= MAX_MULTISIG_SIGNERS
        /\ lastCall'.result # "Ok" => multisig' = multisig ]_vars

\* the roster is full and the threshold equals its length: the admin's
\* remove_signer of a member has just been rejected
C21_Witness ==
    /\ Len(multisig.signers) = MAX_MULTISIG_SIGNERS
    /\ multisig.threshold = Len(multisig.signers)
    /\ lastCall.op = "remove_signer"
    /\ lastCall.who = multisig.admin
    /\ InSeq(multisig.signers, lastCall.arg)
    /\ lastCall.result = "WouldGobelowThreshold"

\* the admin's add_signer of a new key to a full roster has just been rejected
C21_FullRosterRefuses ==
    /\ Len(multisig.signers) = MAX_MULTISIG_SIGNERS
    /\ lastCall.op = "add_signer"
    /\ lastCall.who = multisig.admin
    /\ ~InSeq(multisig.signers, lastCall.arg)
    /\ lastCall.result = "MaxSignersReached"

(***************************************************************************)
(* Properties of the staker counter and the slash totals                    *)
(***************************************************************************)
Stakers == {a \in Agents : Lt(U64_ZERO, agent_identity[a].staked_amount)}

\* C22: StakingPool.total_stakers is the number of positions with
\* staked_amount > 0 in every reachable state; a step increments it exactly
\* when a position goes from zero to non-zero and decrements it exactly when a
\* position returns to zero
C22_StakersCounted ==
    [][ /\ staking_pool.total_stakers = Cardinality(Stakers)
        /\ staking_pool'.total_stakers = Cardinality(Stakers')
        /\ staking_pool'.total_stakers = staking_pool.total_stakers + 1
               <=> \E a \in Agents : a \notin Stakers /\ a \in Stakers'
        /\ staking_pool'.total_stakers = staking_pool.total_stakers - 1
               <=> \E a \in Agents : a \in Stakers /\ a \notin Stakers' ]_vars

\* one agent has just withdrawn its whole position while the other still holds
\* one: the counter went from two to one
C22_Witness ==
    /\ lastCall.op = "unstake_collateral"
    /\ lastCall.result = "Ok"
    /\ lastCall.who \notin Stakers
    /\ Cardinality(Stakers) = 1
    /\ staking_pool.total_stakers = 1

(***************************************************************************)
(* Properties of failing calls                                             *)
(***************************************************************************)
CoreOperations ==
    {"stake_collateral", "unstake_collateral", "slash_agent", "enable_decay",
     "apply_decay", "propose_reputation_update", "approve_proposal",
     "execute_reputation_proposal", "add_signer", "remove_signer", "update_threshold"}

\* the lamports in custody against the books: the pool holds its rent plus
\* total_staked, the treasury what it had plus the pool's total_slashed, and
\* an agent's wallet, position and slashed total add up to what it started with
BooksMatch(identities, pool, balances) ==
    /\ checked_add(POOL_RENT, pool.total_staked) = Some(balances[Pool])
    /\ checked_add(InitialLamports[Treasury], pool.total_slashed)
           = Some(balances[Treasury])
    /\ \A a \in Agents :
           LET held == checked_add(identities[a].staked_amount,
                                   identities[a].total_slashed)
           IN  /\ held.some
               /\ checked_add(balances[a], held.v) = Some(InitialLamports[a])

StakeOperations == {"stake_collateral", "unstake_collateral", "slash_agent"}

\* C24: while ProgramConfig.is_paused is set, stake_collateral,
\* unstake_collateral and slash_agent fail and change no record
C24_ProgramPauseBlocksStaking ==
    [][ (program_config.is_paused /\ lastCall'.op \in StakeOperations)
            => /\ lastCall'.result # "Ok"
               /\ UNCHANGED <<agent_identity, staking_pool, lamports>> ]_vars

\* C29: stake_collateral fails with StakingPaused when the pool is paused and
\* with BelowMinimumStake when the amount is under
\* max(pool.min_stake_amount, MIN_STAKE_AMOUNT), changing no position, pool or
\* custody state; the pool's pause blocks stake only: an unlocked withdrawal
\* and a slash with something to take succeed whether the pool is paused or not
C29_PoolPauseBlocksStakeOnly ==
    [][ LET a == lastCall'.who
            identity == agent_identity[a]
            effective_min == BigMax(staking_pool.min_stake_amount, MIN_STAKE_AMOUNT)
        IN  /\ lastCall'.op = "stake_collateral" =>
                /\ staking_pool.is_paused => lastCall'.result = "StakingPaused"
                /\ (~staking_pool.is_paused /\ Lt(lastCall'.arg, effective_min))
                       => lastCall'.result = "BelowMinimumStake"
                /\ lastCall'.result \in {"StakingPaused", "BelowMinimumStake"}
                       => UNCHANGED <<agent_identity, staking_pool, lamports>>
            /\ (lastCall'.op = "unstake_collateral"
                    /\ can_unlock_stake(identity, now)
                    /\ Le(lastCall'.arg, identity.staked_amount))
                   => lastCall'.result = "Ok"
            /\ (lastCall'.op = "slash_agent"
                    /\ lastCall'.arg <= 10000
                    /\ calculate_slash_amount(identity.staked_amount, lastCall'.arg)
                           # U64_ZERO)
                   => lastCall'.result = "Ok" ]_vars

\* a stake of the minimum amount has just been refused by the paused pool
C29_Witness ==
    /\ staking_pool.is_paused
    /\ lastCall.op = "stake_collateral"
    /\ lastCall.arg = MIN_STAKE_AMOUNT
    /\ lastCall.result = "StakingPaused"

\* with the pool paused, a withdrawal has just succeeded
C29_UnstakeWhilePaused ==
    /\ staking_pool.is_paused
    /\ lastCall.op = "unstake_collateral"
    /\ lastCall.result = "Ok"
    /\ lastCall.arg # U64_ZERO

\* with the pool paused, a slash has just succeeded
C29_SlashWhilePaused ==
    /\ staking_pool.is_paused
    /\ lastCall.op = "slash_agent"
    /\ lastCall.result = "Ok"

\* a stake under the minimum has just been refused by the open pool
C29_BelowMinimumRefused ==
    /\ ~staking_pool.is_paused
    /\ lastCall.op = "stake_collateral"
    /\ lastCall.result = "BelowMinimumStake"

(***************************************************************************)
(* Properties of apply_decay, disable_decay and the grace period           *)
(***************************************************************************)
\* C25: decay does not compound. A successful apply_decay leaves base_score,
\* last_activity and decay_rate_bps as they are and stores the decayed score
\* of that unchanged anchor at the current time, so after any number of
\* apply_decay calls without a re-anchor overall_score is what a single
\* apply_decay at the last of them produces.
C25_DecayNeverCompounds ==
    [][ (lastCall'.op = "apply_decay" /\ lastCall'.result = "Ok") =>
            LET before == agent_reputation[lastCall'.who]
                after == agent_reputation'[lastCall'.who]
            IN  /\ after.base_score = before.base_score
                /\ after.last_activity = before.last_activity
                /\ after.decay_rate_bps = before.decay_rate_bps
                /\ after.overall_score =
                       IF days_inactive(before, now) <= DECAY_GRACE_PERIOD_DAYS
                       THEN before.base_score
                       ELSE Max(halved_score(before, now), DECAY_MIN_SCORE) ]_vars

\* a further apply_decay after one halving period: the stored score was
\* already below its anchor of 1000, and is now half the anchor
C25_Witness ==
    \E a \in decayApplied :
        /\ JustApplied(a)
        /\ agent_reputation[a].base_score = 1000
        /\ agent_reputation[a].overall_score = 500
        /\ days_inactive(agent_reputation[a], now)
               = DECAY_GRACE_PERIOD_DAYS + DECAY_HALF_LIFE_DAYS

\* C26: apply_decay succeeds for any caller at any time in any decay state
\* and leaves overall_score equal to the effective score at the current time;
\* with decay disabled it succeeds and leaves overall_score unchanged
C26_ApplyDecayAlwaysCallable ==
    [][ lastCall'.op = "apply_decay" =>
            LET before == agent_reputation[lastCall'.who]
                after == agent_reputation'[lastCall'.who]
            IN  /\ lastCall'.result = "Ok"
                /\ after.overall_score = get_effective_score(before, now)
                /\ ~before.decay_enabled => after.overall_score = before.overall_score
       ]_vars

AllClockReadings == {Genesis + day * SECONDS_PER_DAY : day \in {0} \cup DecayDays}

\* C27 as stated: a successful disable_decay changes the decay_enabled flag
\* and no other field of the record
C27_DisableChangesFlagOnly ==
    [][ (lastCall'.op = "disable_decay" /\ lastCall'.result = "Ok") =>
            agent_reputation'[lastCall'.who] =
                [agent_reputation[lastCall'.who] EXCEPT !.decay_enabled = FALSE] ]_vars

\* C27 amended: disable_decay clears decay_enabled and stamps last_updated
\* with the current time; every other field (overall_score, base_score,
\* last_activity, decay_rate_bps among them) is unchanged, and while the flag
\* is clear get_effective_score returns the stored overall_score at every
\* clock reading
C27_DisableFreezesScore ==
    [][ /\ (lastCall'.op = "disable_decay" /\ lastCall'.result = "Ok") =>
               agent_reputation'[lastCall'.who] =
                   [agent_reputation[lastCall'.who] EXCEPT !.decay_enabled = FALSE,
                                                           !.last_updated = now]
        /\ \A a \in Agents :
               ~agent_reputation'[a].decay_enabled =>
                   \A t \in AllClockReadings :
                       get_effective_score(agent_reputation'[a], t)
                           = agent_reputation'[a].overall_score ]_vars

\* decay was disabled after the effective score had fallen below the stored
\* one, and time has passed since: the record reads its stored score again
C27_Witness ==
    \E a \in Agents :
        /\ ~agent_reputation[a].decay_enabled
        /\ agent_reputation[a].last_updated < now
        /\ agent_reputation[a].base_score = 1000
        /\ agent_reputation[a].overall_score = 500
        /\ get_effective_score(agent_reputation[a], now) = 500

\* C28: with decay enabled the effective score is base_score exactly whenever
\* floor((now - last_activity) / 86400) <= 30, whatever base_score and
\* decay_rate_bps are
C28_GraceKeepsBase ==
    \A a \in Agents :
        LET reputation == agent_reputation[a]
        IN  (/\ reputation.decay_enabled
             /\ (now - reputation.last_activity) \div 86400 <= 30)
            => get_effective_score(reputation, now) = reputation.base_score

\* the last day of the grace period, on a score under the decay floor
C28_Witness ==
    \E a \in Agents :
        /\ agent_reputation[a].decay_enabled
        /\ (now - agent_reputation[a].last_activity) \div SECONDS_PER_DAY
               = DECAY_GRACE_PERIOD_DAYS
        /\ agent_reputation[a].base_score = 50
        /\ get_effective_score(agent_reputation[a], now) = 50

(***************************************************************************)
(* Properties of the slash totals                                          *)
(***************************************************************************)
SlashedAmounts(identities) == [a \in Agents |-> identities[a].total_slashed]

\* C30: a successful slash_agent increments the position's slash_count by
\* exactly one and adds the slashed amount to the position's and to the pool's
\* total_slashed, so the pool's total_slashed is the sum of the positions'
\* total_slashed in every reachable state
C30_SlashTotalsAgree ==
    [][ /\ Widen(staking_pool'.total_slashed)
               = SumWide(SlashedAmounts(agent_identity'), Agents)
        /\ (lastCall'.op = "slash_agent" /\ lastCall'.result = "Ok") =>
               LET before == agent_identity[lastCall'.who]
                   after == agent_identity'[lastCall'.who]
                   slashed == calculate_slash_amount(before.staked_amount, lastCall'.arg)
               IN  /\ slashed # U64_ZERO
                   /\ after.slash_count = before.slash_count + 1
                   /\ checked_sub(before.staked_amount, slashed) = Some(after.staked_amount)
                   /\ checked_add(before.total_slashed, slashed) = Some(after.total_slashed)
                   /\ checked_add(staking_pool.total_slashed, slashed)
                          = Some(staking_pool'.total_slashed) ]_vars

\* both agents have been slashed, the last slash just now
C30_Witness ==
    /\ lastCall.op = "slash_agent"
    /\ lastCall.result = "Ok"
    /\ \A a \in Agents : /\ agent_identity[a].slash_count >= 1
                         /\ agent_identity[a].total_slashed # U64_ZERO
    /\ Lt(agent_identity[lastCall.who].total_slashed, staking_pool.total_slashed)

(***************************************************************************)
(* The proposal ledger: a full roster of seven signers, several proposals, *)
(* a key that leaves and rejoins the roster, and the multisig pause.       *)
(***************************************************************************)
MaxLedgerProposals == 2
LedgerSigners == {"k1", "k7", "k8"}
LedgerRosterKeys == {"k7"}
LedgerIds == 0..(MaxLedgerProposals - 1)
LedgerPayloads ==
    { [overall_score |-> 800, component_scores |-> Components(80, 80, 80, 80, 80),
       stats |-> Stats(10, 8, 2, 5, 40), merkle_root |-> "root1"] }

InitLedger ==
    /\ now = Genesis
    /\ StakeInitialized
    /\ RateLimitInitialized
    /\ TokenStakingInitialized
    /\ ValidationInitialized
    /\ slashProbe = NoProbe
    /\ ReputationInitialized
    /\ GovInitialized(FullRoster, 2)
    /\ lastCall = Call("initialize_multisig", Admin, 0, "Ok")

NextLedger ==
    \/ \E k \in LedgerSigners, target \in ProposalTargets, payload \in LedgerPayloads :
           multisig.proposal_count < MaxLedgerProposals /\
           propose_reputation_update(k, target, payload)
    \/ \E k \in LedgerSigners, id \in LedgerIds : approve_proposal(k, id)
    \/ \E k \in LedgerSigners, id \in LedgerIds : execute_reputation_proposal(k, id)
    \/ \E c \in AdminCallers, k \in LedgerRosterKeys : add_signer(c, k)
    \/ \E c \in AdminCallers, k \in LedgerRosterKeys : remove_signer(c, k)
    \/ \E c \in AdminCallers : pause_multisig(c)
    \/ \E c \in AdminCallers : unpause_multisig(c)

SpecLedger == InitLedger /\ [][NextLedger]_vars

(***************************************************************************)
(* C31: proposal ids                                                       *)
(***************************************************************************)
\* C31: propose_reputation_update by a roster signer on an active multisig
\* succeeds and creates a proposal whose id is the prior proposal_count, with
\* status Pending, approval_count 1 and exactly the proposer's index bit set,
\* and advances proposal_count by one; the ids of the proposals are therefore
\* distinct and strictly increasing in creation order
C31_ProposalIdsIncrease ==
    [][ /\ (/\ lastCall'.op = "propose_reputation_update"
            /\ multisig.is_active
            /\ InSeq(multisig.signers, lastCall'.who)) => lastCall'.result = "Ok"
        /\ (lastCall'.op = "propose_reputation_update" /\ lastCall'.result = "Ok") =>
               LET created == proposals'[Len(proposals')]
               IN  /\ Len(proposals') = Len(proposals) + 1
                   /\ SubSeq(proposals', 1, Len(proposals)) = proposals
                   /\ created.proposal_id = multisig.proposal_count
                   /\ created.proposer = lastCall'.who
                   /\ created.status = "Pending"
                   /\ created.approval_count = 1
                   /\ created.approval_bitmap
                          = Bit(position(multisig.signers, lastCall'.who))
                   /\ multisig'.proposal_count = multisig.proposal_count + 1
        /\ \A i, j \in DOMAIN proposals' :
               i < j => proposals'[i].proposal_id < proposals'[j].proposal_id ]_vars

\* the seventh signer has just created the second proposal
C31_Witness ==
    /\ lastCall.op = "propose_reputation_update"
    /\ lastCall.result = "Ok"
    /\ lastCall.who = "k7"
    /\ Len(proposals) = 2
    /\ proposals[1].proposal_id = 0
    /\ proposals[2].proposal_id = 1
    /\ proposals[2].approval_bitmap = 64
    /\ multisig.proposal_count = 2

(***************************************************************************)
(* C32: callers outside the roster, and the multisig pause                 *)
(***************************************************************************)
ProposalOperations ==
    {"propose_reputation_update", "approve_proposal", "execute_reputation_proposal"}

\* the proposal's status lets the call through to the handler's own checks:
\* the account constraints (and approve's expiry check) come first
Admitted(call) ==
    CASE call.op = "propose_reputation_update" -> TRUE
      [] call.op = "approve_proposal" ->
             /\ proposals[Addressed(call)].status = "Pending"
             /\ ~is_expired(proposals[Addressed(call)], now)
      [] call.op = "execute_reputation_proposal" ->
             proposals[Addressed(call)].status = "Approved"

\* C32: propose_reputation_update, approve_proposal and
\* execute_reputation_proposal each fail with UnauthorizedSigner for a caller
\* not currently in the roster and with MultisigPaused while the multisig is
\* inactive, leaving proposals, roster and reputation unchanged
C32_OutsidersAndPauseRefused ==
    [][ lastCall'.op \in ProposalOperations =>
          /\ ~multisig.is_active =>
                 /\ lastCall'.result = "MultisigPaused"
                 /\ UNCHANGED <<proposals, multisig, agent_reputation>>
          /\ (multisig.is_active /\ ~InSeq(multisig.signers, lastCall'.who)) =>
                 /\ lastCall'.result = "UnauthorizedSigner"
                 /\ UNCHANGED <<proposals, multisig, agent_reputation>> ]_vars

\* C32 (amended): a call of the three instructions by a key not currently in
\* the roster, or while the multisig is inactive, always fails and leaves
\* proposals, roster and reputation unchanged.  The error is MultisigPaused
\* (inactive) or UnauthorizedSigner (active, caller outside the roster)
\* whenever the proposal's status admits the call; on any other proposal the
\* status or expiry check fails first with its own error.
C32_OutsidersAndPauseFail ==
    [][ lastCall'.op \in ProposalOperations =>
          LET outsider == ~InSeq(multisig.signers, lastCall'.who)
          IN  /\ (outsider \/ ~multisig.is_active) =>
                     /\ lastCall'.result # "Ok"
                     /\ UNCHANGED <<proposals, multisig, agent_reputation>>
              /\ (Admitted(lastCall') /\ ~multisig.is_active) =>
                     lastCall'.result = "MultisigPaused"
              /\ (Admitted(lastCall') /\ multisig.is_active /\ outsider) =>
                     lastCall'.result = "UnauthorizedSigner"
              /\ ~Admitted(lastCall') =>
                     lastCall'.result \in {"ProposalAlreadyExecuted", "ProposalExpired",
                                           "InsufficientApprovals"} ]_vars

\* k7 approved a proposal while in the roster, was removed, and its attempt
\* to execute the Approved proposal has just been refused
C32_Witness ==
    /\ lastCall.op = "execute_reputation_proposal"
    /\ lastCall.who = "k7"
    /\ lastCall.result = "UnauthorizedSigner"
    /\ "k7" \in approvedBy[Addressed(lastCall)]
    /\ ~InSeq(multisig.signers, "k7")
    /\ proposals[Addressed(lastCall)].status = "Approved"

\* a roster signer's approval of a Pending proposal has just been refused
\* because the multisig is paused
C32_PausedRefusesSigner ==
    /\ lastCall.op = "approve_proposal"
    /\ lastCall.result = "MultisigPaused"
    /\ InSeq(multisig.signers, lastCall.who)
    /\ proposals[Addressed(lastCall)].status = "Pending"

(***************************************************************************)
(* Cooperating signers: the multisig is created with any accepted roster   *)
(* and threshold, one proposal is made, and the signers keep making every  *)
(* call that can succeed.  No time passes, so nothing expires.             *)
(***************************************************************************)
CooperationRosters == { <<"k1">>, <<"k1", "k2">>, DefaultRoster }
CooperationThresholds == 0..(Cardinality(Keys) + 1)

InitCooperation ==
    /\ now = Genesis
    /\ StakeInitialized
    /\ RateLimitInitialized
    /\ TokenStakingInitialized
    /\ ValidationInitialized
    /\ slashProbe = NoProbe
    /\ ReputationInitialized
    /\ multisig = NoMultisig
    /\ proposals = <<>>
    /\ approvedBy = <<>>
    /\ executions = <<>>
    /\ lastCall = Call("genesis", "clock", 0, "Ok")

NextCooperation ==
    \/ \E signers \in CooperationRosters, threshold \in CooperationThresholds :
           initialize_multisig(Admin, signers, threshold)
    \/ \E k \in Keys, target \in ProposalTargets, payload \in LedgerPayloads :
           multisig.proposal_count < MaxProposals /\
           propose_reputation_update(k, target, payload)
    \/ \E k \in Keys, id \in ProposalIds : approve_proposal(k, id)
    \/ \E k \in Keys, id \in ProposalIds : execute_reputation_proposal(k, id)

\* a call that succeeds
CooperativeStep == NextCooperation /\ lastCall'.result = "Ok"

SpecCooperation ==
    InitCooperation /\ [][NextCooperation]_vars /\ WF_vars(CooperativeStep)

(***************************************************************************)
(* C33: a proposal can be carried to Executed                              *)
(***************************************************************************)
\* C33: for every roster and threshold accepted by initialize_multisig,
\* including threshold 1 and a single-signer roster, a newly created
\* proposal reaches Executed before its expiry when the roster signers
\* cooperate, i.e. keep making the approve and execute calls that succeed
C33_CooperationExecutes ==
    <>(\E i \in DOMAIN proposals : proposals[i].status = "Executed")

(***************************************************************************)
(* C34: the roster holds distinct keys                                     *)
(***************************************************************************)
\* C34: in every reachable state the signers roster of the multisig holds
\* pairwise distinct keys
C34_RosterKeysDistinct ==
    \A i, j \in 1..Len(multisig.signers) :
        i # j => multisig.signers[i] # multisig.signers[j]

(***************************************************************************)
(* C35: approval_count and approval_bitmap                                 *)
(***************************************************************************)
\* the number of bits set in a u8 bitmap
RECURSIVE CountBits(_)
CountBits(bitmap) == IF bitmap = 0 THEN 0 ELSE (bitmap % 2) + CountBits(bitmap \div 2)

\* C35: in every reachable state every proposal's approval_count equals the
\* number of bits set in its approval_bitmap, and every set bit has an index
\* below MAX_MULTISIG_SIGNERS, so the bitmap fits in eight bits
C35_CountMatchesBitmap ==
    \A i \in DOMAIN proposals :
        /\ proposals[i].approval_count = CountBits(proposals[i].approval_bitmap)
        /\ proposals[i].approval_bitmap < Bit(MAX_MULTISIG_SIGNERS)

\* a proposal carries the approvals of the first and of the seventh signer
C35_Witness ==
    \E i \in DOMAIN proposals :
        /\ proposals[i].approval_bitmap = Bit(0) + Bit(MAX_MULTISIG_SIGNERS - 1)
        /\ proposals[i].approval_count = 2
        /\ approvedBy[i] = {"k1", "k7"}

(***************************************************************************)
(* C36: a slash leaves a position                                          *)
(***************************************************************************)
\* C36: a successful slash_agent never empties a position: it takes a
\* positive amount that is at most half of the stake, so staked_amount stays
\* above zero, and it leaves the pool's total_stakers unchanged
C36_SlashLeavesPosition ==
    [][ (lastCall'.op = "slash_agent" /\ lastCall'.result = "Ok") =>
          LET before == agent_identity[lastCall'.who].staked_amount
              after == agent_identity'[lastCall'.who].staked_amount
              doubled == checked_add(after, after)
          IN  /\ Lt(U64_ZERO, after)
              /\ Lt(after, before)
              /\ doubled.some => Le(before, doubled.v)
              /\ staking_pool'.total_stakers = staking_pool.total_stakers
              /\ lastCall'.who \in Stakers ]_vars

\* a position has just been slashed at the heaviest severity for the second
\* time and still holds stake
C36_Witness ==
    /\ lastCall.op = "slash_agent"
    /\ lastCall.result = "Ok"
    /\ lastCall.arg >= 10000
    /\ agent_identity[lastCall.who].slash_count = 2
    /\ Lt(U64_ZERO, agent_identity[lastCall.who].staked_amount)
    /\ staking_pool.total_stakers = Cardinality(Stakers)

check_rate_limit(user) ==
    LET \* saturating_sub on i64: the readings are far from the ends of i64
        window_elapsed == now - rate_limit.window_start
        new_window == window_elapsed >= RATE_LIMIT_WINDOW_SECONDS
        result ==
            IF program_config.is_paused THEN "ProgramPaused"
            ELSE IF new_window THEN "Ok"
            ELSE IF ~(rate_limit.instruction_count < program_config.rate_limit_per_minute)
                 THEN "RateLimitExceeded"
            ELSE "Ok"
    IN  /\ lastCall' = Call("check_rate_limit", user, rate_limit.instruction_count, result)
        /\ IF result = "Ok"
           THEN /\ rate_limit' =
                       [ window_start |-> IF new_window THEN now
                                          ELSE rate_limit.window_start,
                         instruction_count |-> IF new_window THEN 1
                                               ELSE rate_limit.instruction_count + 1,
                         last_instruction |-> now ]
                /\ accepted' = Append(accepted, now)
           ELSE UNCHANGED rateVars
        /\ UNCHANGED <<now, stakeVars, slashProbe, govVars, repVars, tokenVars,
                       endpoint_validation>>

(***************************************************************************)
(* The rate limiter of one user: the configured limit is drawn at          *)
(* initialize_program_config, the clock moves through readings around the  *)
(* end of the first and of the second window, and the admin may pause.     *)
(***************************************************************************)
MaxRateCalls == 4
RateLimits == {0, 1, 2, 3}
RateUsers == {"a1"}
RateClock == { Genesis, Genesis + 1,
               Genesis + RATE_LIMIT_WINDOW_SECONDS - 1,
               Genesis + RATE_LIMIT_WINDOW_SECONDS,
               Genesis + RATE_LIMIT_WINDOW_SECONDS + 1,
               Genesis + 2 * RATE_LIMIT_WINDOW_SECONDS - 1,
               Genesis + 2 * RATE_LIMIT_WINDOW_SECONDS }
RatePauseReasons == {20}

InitRate ==
    /\ now = Genesis
    /\ agent_identity = [a \in Agents |-> RegisteredIdentity(Genesis)]
    /\ staking_pool = InitialStakingPool
    /\ lamports = InitialLamports
    /\ \E limit \in RateLimits :
           program_config = [InitialProgramConfig EXCEPT !.rate_limit_per_minute = limit]
    /\ RateLimitInitialized
    /\ TokenStakingInitialized
    /\ ValidationInitialized
    /\ slashProbe = NoProbe
    /\ GovInitialized(DefaultRoster, 2)
    /\ ReputationInitialized
    /\ lastCall = Call("initialize_user_rate_limit", "a1", 0, "Ok")

NextRate ==
    \/ \E user \in RateUsers : Len(accepted) < MaxRateCalls /\ check_rate_limit(user)
    \/ \E c \in AdminCallers, reason \in RatePauseReasons : pause_program(c, reason)
    \/ \E c \in AdminCallers : unpause_program(c)
    \/ \E t \in RateClock : GovTick(t)

SpecRate == InitRate /\ [][NextRate]_vars

(***************************************************************************)
(* C38: the rate limit                                                     *)
(***************************************************************************)
\* C38: for a given user and any configured rate_limit_per_minute, no more
\* than rate_limit_per_minute check_rate_limit calls succeed within any
\* 60-second span, and none succeeds while the program is paused
C38_RateLimitHolds ==
    /\ \A i, j \in DOMAIN accepted :
           (i <= j /\ accepted[j] - accepted[i] < RATE_LIMIT_WINDOW_SECONDS)
               => j - i + 1 <= program_config.rate_limit_per_minute
    /\ (lastCall.op = "check_rate_limit" /\ lastCall.result = "Ok")
           => ~program_config.is_paused

(***************************************************************************)
(* token_staking: stake_tokens, unstake_tokens, update_vault_config.       *)
(* Token amounts are small, so the u64 checked_add / checked_sub of the    *)
(* handlers never overflow and are written as plain arithmetic.            *)
(***************************************************************************)
\* ((n as f64).log2() * 100.0) as u64, for n = 1, 2, ..., 16
Log2Times100 ==
    <<0, 100, 158, 200, 232, 258, 280, 300, 316, 332, 345, 358, 370, 380, 390, 400>>

\* StakingVault::calculate_trust_weight
calculate_trust_weight(v, amount) ==
    LET base_weight == Log2Times100[amount + 1]
    IN  (base_weight * v.weight_multiplier) \div 100

\* StakePosition::can_unlock
can_unlock(stake, current_timestamp) ==
    stake.is_active /\ current_timestamp >= stake.locked_until

\* stake_tokens.rs handler(amount, category); token::transfer fails when the
\* staker's token account holds less than amount
stake_tokens(staker, amount, category) ==
    LET is_new_stake == ~stake_position.is_active \/ stake_position.staker = "default"
        total_stake == IF is_new_stake THEN amount ELSE stake_position.amount + amount
        trust_weight == calculate_trust_weight(vault, total_stake)
        locked_until == now + vault.lock_period_seconds
        result ==
            IF ~vault.is_active THEN "VaultNotActive"
            ELSE IF staker = vault.target_agent THEN "SelfStakingNotAllowed"
            ELSE IF ~(amount >= vault.min_stake_amount) THEN "BelowMinimumStake"
            ELSE IF token_balance.staker < amount THEN "InsufficientFunds"
            ELSE "Ok"
    IN  /\ lastCall' = Call("stake_tokens", staker, amount, result)
        /\ IF result = "Ok"
           THEN /\ token_balance' = [ staker |-> token_balance.staker - amount,
                                      vault |-> token_balance.vault + amount ]
                /\ stake_position' =
                       IF is_new_stake
                       THEN [ staker |-> staker,
                              amount |-> amount,
                              category |-> category,
                              trust_weight |-> trust_weight,
                              staked_at |-> now,
                              locked_until |-> locked_until,
                              unstaked_at |-> 0,
                              is_active |-> TRUE,
                              is_slashed |-> FALSE ]
                       ELSE [stake_position EXCEPT
                                !.amount = total_stake,
                                !.trust_weight = trust_weight,
                                !.locked_until = locked_until,
                                !.category = category]
                /\ vault' = [vault EXCEPT
                       !.total_stakers = IF is_new_stake THEN @ + 1 ELSE @,
                       !.total_staked = @ + amount,
                       !.updated_at = now]
           ELSE UNCHANGED tokenVars
        /\ UNCHANGED <<now, stakeVars, slashProbe, govVars, repVars, rateVars,
                       endpoint_validation>>

\* unstake_tokens.rs handler(amount); a position that was never created is
\* refused like an inactive one
unstake_tokens(staker, amount) ==
    LET is_full_unstake == amount = stake_position.amount
        remaining == stake_position.amount - amount
        result ==
            IF ~stake_position.is_active THEN "StakeNotActive"
            ELSE IF stake_position.staker # staker THEN "UnauthorizedStaker"
            ELSE IF ~can_unlock(stake_position, now) THEN "StakeLocked"
            ELSE IF ~(amount > 0 /\ amount <= stake_position.amount)
                 THEN "InvalidUnstakeAmount"
            ELSE "Ok"
    IN  /\ lastCall' = Call("unstake_tokens", staker, amount, result)
        /\ IF result = "Ok"
           THEN /\ token_balance' = [ staker |-> token_balance.staker + amount,
                                      vault |-> token_balance.vault - amount ]
                /\ stake_position' =
                       IF is_full_unstake
                       THEN [stake_position EXCEPT
                                !.amount = remaining,
                                !.is_active = FALSE,
                                !.unstaked_at = now,
                                !.trust_weight = 0]
                       ELSE [stake_position EXCEPT
                                !.amount = remaining,
                                !.trust_weight = calculate_trust_weight(vault, remaining)]
                /\ vault' = [vault EXCEPT
                       !.total_stakers = IF is_full_unstake THEN Max(@ - 1, 0) ELSE @,
                       !.total_staked = @ - amount,
                       !.updated_at = now]
           ELSE UNCHANGED tokenVars
        /\ UNCHANGED <<now, stakeVars, slashProbe, govVars, repVars, rateVars,
                       endpoint_validation>>

\* Option<_> arguments of update_vault_config
Keep == [some |-> FALSE, v |-> 0]
Set(x) == [some |-> TRUE, v |-> x]

update_vault_config(caller, min_stake_amount, lock_period_seconds, weight_multiplier) ==
    LET result ==
            IF vault.authority # caller THEN "UnauthorizedAuthority"
            ELSE IF /\ lock_period_seconds.some
                    /\ ~(lock_period_seconds.v > 0 /\ lock_period_seconds.v <= MAX_LOCK_PERIOD)
                 THEN "InvalidLockPeriod"
            ELSE IF /\ weight_multiplier.some
                    /\ ~(weight_multiplier.v >= 10 /\ weight_multiplier.v <= 1000)
                 THEN "InvalidWeightMultiplier"
            ELSE "Ok"
    IN  /\ lastCall' = Call("update_vault_config", caller, lock_period_seconds.v, result)
        /\ IF result = "Ok"
           THEN vault' = [vault EXCEPT
                    !.min_stake_amount =
                        IF min_stake_amount.some THEN Max(min_stake_amount.v, 1) ELSE @,
                    !.lock_period_seconds =
                        IF lock_period_seconds.some THEN lock_period_seconds.v ELSE @,
                    !.weight_multiplier =
                        IF weight_multiplier.some THEN weight_multiplier.v ELSE @,
                    !.updated_at = now]
           ELSE UNCHANGED vault
        /\ UNCHANGED <<now, stakeVars, slashProbe, govVars, repVars, rateVars,
                       stake_position, token_balance, endpoint_validation>>

(***************************************************************************)
(* One staker and one vault: stakes and top-ups, withdrawals, the vault    *)
(* authority changing the configuration, and the clock.                    *)
(***************************************************************************)
TokenStakers == {Staker, VaultTarget}
TokenAmounts == {1, 2}
TokenUnstakeAmounts == {0, 2, 5}
TokenCategories == {"General"}
VaultCallers == {VaultAuthority, Staker}
MinStakeArgs == {Keep}
LockPeriodArgs == {Keep, Set(0), Set(SECONDS_PER_DAY), Set(MAX_LOCK_PERIOD + 1)}
MultiplierArgs == {Keep, Set(9)}
TokenClock == {Genesis, Genesis + SECONDS_PER_DAY, Genesis + DEFAULT_LOCK_PERIOD}

InitToken ==
    /\ now = Genesis
    /\ StakeInitialized
    /\ RateLimitInitialized
    /\ TokenStakingInitialized
    /\ ValidationInitialized
    /\ slashProbe = NoProbe
    /\ GovInitialized(DefaultRoster, 2)
    /\ ReputationInitialized
    /\ lastCall = Call("initialize_vault", VaultAuthority, DEFAULT_LOCK_PERIOD, "Ok")

NextToken ==
    \/ \E k \in TokenStakers, amount \in TokenAmounts, category \in TokenCategories :
           stake_tokens(k, amount, category)
    \/ \E k \in TokenStakers, amount \in TokenUnstakeAmounts : unstake_tokens(k, amount)
    \/ \E c \in VaultCallers, m \in MinStakeArgs, l \in LockPeriodArgs, w \in MultiplierArgs :
           update_vault_config(c, m, l, w)
    \/ \E t \in TokenClock : GovTick(t)

SpecToken == InitToken /\ [][NextToken]_vars

(***************************************************************************)
(* C39: a top-up and the lock                                              *)
(***************************************************************************)
\* C39: after stake_tokens on an existing active position locked_until is
\* never earlier than it was before the call, for every sequence of
\* stake_tokens and update_vault_config calls
C39_TopUpNeverShortensLock ==
    [][ (/\ lastCall'.op = "stake_tokens"
         /\ lastCall'.result = "Ok"
         /\ stake_position.is_active)
            => stake_position'.locked_until >= stake_position.locked_until ]_vars

(***************************************************************************)
(* validation_registry: submit_validation, calculate_consensus,            *)
(* issue_validation_stamp.  Only the test results' success flag and score  *)
(* are kept; the url and model-name length checks are not modelled.        *)
(***************************************************************************)
Validator == "validator"

TestResult(success, score) == [success |-> success, score |-> score]

\* submit_validation.rs handler: `init` refuses an existing account
submit_validation(payer, test_results) ==
    LET result ==
            IF endpoint_validation.submitted THEN "AccountAlreadyInUse"
            ELSE IF ~(Len(test_results) <= 10) THEN "TooManyTestResults"
            ELSE "Ok"
    IN  /\ lastCall' = Call("submit_validation", payer, Len(test_results), result)
        /\ IF result = "Ok"
           THEN endpoint_validation' = [ submitted |-> TRUE,
                                         test_results |-> test_results,
                                         consensus_score |-> 0,
                                         stamp_issued |-> FALSE ]
           ELSE UNCHANGED endpoint_validation
        /\ UNCHANGED <<now, stakeVars, slashProbe, govVars, repVars, rateVars, tokenVars>>

\* the loop of calculate_consensus: the successful tests and their scores
SuccessfulTests(test_results) ==
    {i \in DOMAIN test_results : test_results[i].success}

RECURSIVE TotalScore(_, _)
TotalScore(test_results, indices) ==
    IF indices = {} THEN 0
    ELSE LET i == CHOOSE x \in indices : TRUE
         IN  test_results[i].score + TotalScore(test_results, indices \ {i})

\* calculate_consensus.rs lines 52-64 (u32 arithmetic, far from saturation)
consensus_of(test_results) ==
    LET successful_tests == Cardinality(SuccessfulTests(test_results))
        total_score == TotalScore(test_results, SuccessfulTests(test_results))
        avg_score == IF successful_tests > 0 THEN total_score \div successful_tests ELSE 0
        success_rate == IF Len(test_results) = 0 THEN 0
                        ELSE (successful_tests * 100) \div Len(test_results)
        success_bonus == (success_rate * 9) \div 10
    IN  Min(avg_score + success_bonus, 1000)

calculate_consensus(caller) ==
    LET result ==
            IF ~endpoint_validation.submitted THEN "AccountNotInitialized"
            ELSE IF caller # Validator THEN "UnauthorizedAuthority"
            ELSE IF ~(Len(endpoint_validation.test_results) >= 3)
                 THEN "InsufficientTestResults"
            ELSE "Ok"
    IN  /\ lastCall' = Call("calculate_consensus", caller, 0, result)
        /\ IF result = "Ok"
           THEN endpoint_validation' = [endpoint_validation EXCEPT
                    !.consensus_score = consensus_of(endpoint_validation.test_results)]
           ELSE UNCHANGED endpoint_validation
        /\ UNCHANGED <<now, stakeVars, slashProbe, govVars, repVars, rateVars, tokenVars>>

issue_validation_stamp(caller) ==
    LET result ==
            IF ~endpoint_validation.submitted THEN "AccountNotInitialized"
            ELSE IF caller # Validator THEN "UnauthorizedAuthority"
            ELSE IF endpoint_validation.stamp_issued THEN "StampAlreadyIssued"
            ELSE IF ~(endpoint_validation.consensus_score > 0) THEN "InvalidConsensusScore"
            ELSE IF ~(endpoint_validation.consensus_score >= 700)
                 THEN "InvalidConsensusScore"
            ELSE "Ok"
    IN  /\ lastCall' = Call("issue_validation_stamp", caller,
                            endpoint_validation.consensus_score, result)
        /\ IF result = "Ok"
           THEN endpoint_validation' = [endpoint_validation EXCEPT !.stamp_issued = TRUE]
           ELSE UNCHANGED endpoint_validation
        /\ UNCHANGED <<now, stakeVars, slashProbe, govVars, repVars, rateVars, tokenVars>>

(***************************************************************************)
(* One endpoint: a validation with two to four test results is submitted,  *)
(* its consensus is calculated and a stamp is requested.                   *)
(***************************************************************************)
MaxTestResults == 4
TestOutcomes == { TestResult(TRUE, 100), TestResult(TRUE, 255), TestResult(FALSE, 100) }
TestResultArgs ==
    UNION { [1..n -> TestOutcomes] : n \in 2..MaxTestResults }
ValidationCallers == {Validator, "stranger"}

InitValidation ==
    /\ now = Genesis
    /\ StakeInitialized
    /\ RateLimitInitialized
    /\ TokenStakingInitialized
    /\ ValidationInitialized
    /\ slashProbe = NoProbe
    /\ GovInitialized(DefaultRoster, 2)
    /\ ReputationInitialized
    /\ lastCall = Call("initialize_authority", Validator, 0, "Ok")

NextValidation ==
    \/ \E payer \in ValidationCallers, test_results \in TestResultArgs :
           submit_validation(payer, test_results)
    \/ \E c \in ValidationCallers : calculate_consensus(c)
    \/ \E c \in ValidationCallers : issue_validation_stamp(c)

SpecValidation == InitValidation /\ [][NextValidation]_vars

(***************************************************************************)
(* C40: the consensus score and the stamp                                  *)
(***************************************************************************)
AllPerfect(test_results) ==
    \A i \in DOMAIN test_results :
        test_results[i].success /\ test_results[i].score = 100

\* C40: calculate_consensus yields a score in 0..1000; with at least three
\* results, all successful with score 100, consensus_score is 1000, so that
\* issue_validation_stamp (which requires at least 700) can succeed
C40_PerfectResultsReachStamp ==
    [][ /\ (lastCall'.op = "calculate_consensus" /\ lastCall'.result = "Ok") =>
               /\ endpoint_validation'.consensus_score \in 0..1000
               /\ AllPerfect(endpoint_validation.test_results) =>
                      endpoint_validation'.consensus_score = 1000
        /\ (/\ lastCall'.op = "issue_validation_stamp"
            /\ lastCall'.who = Validator
            /\ ~endpoint_validation.stamp_issued
            /\ endpoint_validation.consensus_score # 0
            /\ AllPerfect(endpoint_validation.test_results)) =>
               lastCall'.result = "Ok" ]_vars

====
